---- MODULE Spec2Model ----
(***************************************************************************)
(* Verification model of the Stratum V2 mining data plane                  *)
(* (protocols/v2/subprotocols/mining/src/lib.rs): the extranonce           *)
(* allocator ExtendedExtranonce, the Extranonce counter and its wire       *)
(* conversions, the Target comparator and the big-endian increment         *)
(* primitive increment_bytes_be;                                           *)
(* and of the Noise layer below it (protocols/v2/noise-sv2/src/lib.rs):    *)
(* the handshake of Initiator and Responder and the NoiseCodec they        *)
(* produce.                                                                *)
(*                                                                         *)
(* Scaling.  A byte ranges over 0..U8_MAX and the extranonce buffer has    *)
(* EXTRANONCE_LEN bytes; the 16-byte head of the source is the first       *)
(* EXTRANONCE_LEN \div 2 bytes.  Rust's half-open range a..b over a        *)
(* 0-indexed array is the index set a+1..b of a 1-indexed sequence.        *)
(* A u128 head takes HEAD_LEN bytes and a u128 tail TAIL_LEN bytes, in     *)
(* Extranonce and in Target alike.                                         *)
(***************************************************************************)
EXTENDS Integers, Sequences, FiniteSets, TLC

VARIABLES
    alloc,        \* the ExtendedExtranonce under test (exists = FALSE before construction)
    result,       \* the last call on the allocator API: operation, arguments, outcome
    handed,       \* history: the successful allocations in order, each with its operation
    stdNone,      \* history: next_standard has returned None
    extNone,      \* history: next_extended has returned None with range_1 at maximum
    calls,        \* number of next_standard/next_extended calls made so far
    overflowChecks, \* the build: TRUE when integer overflow panics, FALSE when it wraps
    created,      \* history: the constructor that returned the allocator ("none" before)
    slice,        \* the &mut [u8] handed to increment_bytes_be (SpecInc only)
    sliceBefore,  \* its content before the call
    incResult,    \* "none" before the call, then "Ok" or "Err"
    extranonce,   \* the Extranonce under test (SpecExtranonce only)
    nextResult,   \* the last Extranonce::next call: value before, outcome, returned B032
    nextStart,    \* history: the Extranonce before the first call of next
    nextCalls,    \* history: number of calls of next that have returned
    conv,         \* the last wire conversion of the Extranonce: operation, bytes, value read back
    wireA,        \* a [u8; 32] target in wire form (SpecTarget only)
    wireB,        \* a second one
    tgtA,         \* Target::from(wireA)
    tgtB,         \* Target::from(wireB)
    tgtC,         \* a third Target
    tgtOrd,       \* the Ordering returned by cmp for each pair of tgtA, tgtB, tgtC
    tgtTrip,      \* tgtA converted to U256 and back
    cfg,          \* the connection's setting: channel, authority key expected, certificate, clocks
    hs,           \* the HandshakeState of the Initiator ("I") and of the Responder ("R")
    hsPath,       \* history: the handshake states each role has been in, in order
    msg1,         \* handshake message 1 in flight (Initiator to Responder)
    msg2,         \* handshake message 2 in flight (Responder to Initiator)
    flipped,      \* history: the part of a handshake message changed in transit ("none" if none)
    codec,        \* the NoiseCodec of each role (exists = FALSE before its split)
    conn,         \* the connection of each role after split: tainted, closed
    wire,         \* the encrypted records in flight in each direction ("IR", "RI")
    sentLog,      \* history: key, nonce and plaintext of each record encrypted, by direction
    delivered,    \* history: the records decrypted and handed up, by direction
    lastOp,       \* the last NoiseCodec call: role, operation, outcome, buffer before and after
    meddled,      \* history: number of records dropped, duplicated, reordered or changed in transit
    cancellation_token, \* translator: is_cancelled() of the CancellationToken main creates
    rx_status,    \* translator: the status channel, the statuses sent and not yet received by main
    tasks,        \* translator: the tasks spawned so far, in order: kind, start call, state
    mainPc,       \* translator: where main is
    starts,       \* translator: number of calls of start so far
    shutdowns,    \* translator: history, number of UpstreamShutdown statuses main has handled
    url,          \* jd-server: the url of the JDsMempool (core_rpc_url ":" core_rpc_port)
    mempool,      \* jd-server: JDsMempool.mempool, the stored transactions in order
    update,       \* jd-server: the update_mempool call in progress: position, locals, return value
    readerOp,     \* jd-server: the last read of the mempool under its lock: operation, list seen, result
    declared_mining_job, \* jd-server: JobDeclaratorDownstream.declared_mining_job, None or Some(job)
    receiver,     \* jd-server: the downstream's receiving channel: closed or not
    loopPc,       \* jd-server: the downstream's receive loop: "recv", "ended" or "panicked"
    handled,      \* jd-server: history, the messages the receive loop has taken, in order
    sender,       \* jd-server: history, the responses sent to the downstream, in order
    status_tx,    \* jd-server: history, the statuses sent on the status channel, in order
    submit_solution, \* jd-server: the submit-solution channel, the block hexes not yet received
    sentHex,      \* jd-server: history, the block hexes sent on the submit-solution channel
    submitted,    \* jd-server: history, the block hexes passed to submit_block, each with its outcome
    onSubmitPc,   \* jd-server: the on_submit task: "idle" between calls, "recv" in its loop, "ended"
    executor,     \* message-generator: execute: position, success, results worked on, the last one
    unsatisfied   \* message-generator: history, a received message did not satisfy its expected result

allocVars == <<alloc, result, handed, stdNone, extNone, calls, overflowChecks, created>>
sliceVars == <<slice, sliceBefore, incResult>>
extranonceVars == <<extranonce, nextResult, nextStart, nextCalls, conv>>
targetVars == <<wireA, wireB, tgtA, tgtB, tgtC, tgtOrd, tgtTrip>>
handshakeVars == <<cfg, hs, hsPath, msg1, msg2, flipped>>
recordVars == <<conn, wire, sentLog, delivered, lastOp, meddled>>
noiseVars == <<handshakeVars, codec, recordVars>>
miningVars == <<allocVars, sliceVars, extranonceVars, targetVars>>
translatorVars == <<cancellation_token, rx_status, tasks, mainPc, starts, shutdowns>>
mempoolVars == <<url, mempool, update, readerOp>>
downstreamVars == <<declared_mining_job, receiver, loopPc, handled, sender, status_tx>>
submitVars == <<submit_solution, sentHex, submitted, onSubmitPc>>
executorVars == <<executor, unsatisfied>>
roleVars == <<translatorVars, mempoolVars, downstreamVars, submitVars, executorVars>>
vars == <<alloc, result, handed, stdNone, extNone, calls, overflowChecks, created,
          slice, sliceBefore, incResult,
          extranonce, nextResult, nextStart, nextCalls, conv,
          wireA, wireB, tgtA, tgtB, tgtC, tgtOrd, tgtTrip,
          cfg, hs, hsPath, msg1, msg2, flipped, codec,
          conn, wire, sentLog, delivered, lastOp, meddled,
          cancellation_token, rx_status, tasks, mainPc, starts, shutdowns,
          url, mempool, update, readerOp,
          declared_mining_job, receiver, loopPc, handled, sender, status_tx,
          submit_solution, sentHex, submitted, onSubmitPc,
          executor, unsatisfied>>

----------------------------------------------------------------------------
(* Bounds *)

\* u8::MAX, scaled
U8_MAX == 2
\* const EXTRANONCE_LEN, scaled
EXTRANONCE_LEN == 3
\* width of usize in bits, scaled
UsizeBits == 4
\* longest slice given to increment_bytes_be in SpecInc
MaxSliceLen == 4
\* number of next_standard/next_extended calls made on one allocator
MaxCalls == 5
\* number of Extranonce::next calls made on one Extranonce
MaxNextCalls == 4
\* width of a CipherState's nonce counter in bits, scaled
NonceBits == 2
\* number of encrypt calls made on one NoiseCodec
MaxEncrypts == 4
\* number of records in flight in one direction
MaxInFlight == 2
\* number of records an adversary drops, duplicates, reorders or changes
MaxMeddled == 1
MaxStarts == 3
MaxStatuses == 2
MaxTx == 2
MaxUpdates == 2
SHORT_ID_SPACE == 2
MaxMessages == 4
MaxResults == 2

Byte == 0..U8_MAX
Base == U8_MAX + 1
UsizeModulus == 2 ^ UsizeBits
\* the literal 16 of the source: half of the buffer
HEAD_LEN == EXTRANONCE_LEN \div 2
TAIL_LEN == EXTRANONCE_LEN - HEAD_LEN
\* u128::MAX for the head and for the tail, at their scaled widths
HEAD_MAX == Base ^ HEAD_LEN - 1
TAIL_MAX == Base ^ TAIL_LEN - 1

----------------------------------------------------------------------------
(* Byte-level helpers *)

RECURSIVE FromBeBytes(_)
\* uN::from_be_bytes: first byte most significant
FromBeBytes(bs) ==
    IF bs = <<>> THEN 0
    ELSE FromBeBytes(SubSeq(bs, 1, Len(bs) - 1)) * Base + bs[Len(bs)]

\* uN::to_be_bytes for a width of n bytes
ToBeBytes(x, n) == [i \in 1..n |-> (x \div (Base ^ (n - i))) % Base]

RECURSIVE FromLeBytes(_)
\* uN::from_le_bytes: first byte least significant
FromLeBytes(bs) ==
    IF bs = <<>> THEN 0
    ELSE bs[1] + Base * FromLeBytes(SubSeq(bs, 2, Len(bs)))

\* uN::to_le_bytes for a width of n bytes
ToLeBytes(x, n) == [i \in 1..n |-> (x \div (Base ^ (i - 1))) % Base]

\* <[u8]>::reverse
Reverse(bs) == [i \in 1..Len(bs) |-> bs[Len(bs) + 1 - i]]

RECURSIVE IncFrom(_, _)
\* the first loop of increment_bytes_be, at byte i counted from the start;
\* falls through to the second loop (restore to u8::MAX, Err) at i = 0
IncFrom(bs, i) ==
    IF i = 0 THEN [ok |-> FALSE, bs |-> [j \in 1..Len(bs) |-> U8_MAX]]
    ELSE IF bs[i] # U8_MAX THEN [ok |-> TRUE, bs |-> [bs EXCEPT ![i] = @ + 1]]
    ELSE IncFrom([bs EXCEPT ![i] = 0], i - 1)

\* variant of increment_bytes_be: at the maximum it reports Ok(()) and stays there
increment_bytes_be_saturating(bs) ==
    [ok |-> TRUE, bs |-> IncFrom(bs, Len(bs)).bs]

RECURSIVE IncFromFront(_, _)
IncFromFront(bs, i) ==
    IF i > Len(bs) THEN [ok |-> FALSE, bs |-> [j \in 1..Len(bs) |-> U8_MAX]]
    ELSE IF bs[i] # U8_MAX THEN [ok |-> TRUE, bs |-> [bs EXCEPT ![i] = @ + 1]]
    ELSE IncFromFront([bs EXCEPT ![i] = 0], i + 1)

\* variant of increment_bytes_be: the first loop runs without .rev(), from the
\* first byte
increment_bytes_le(bs) == IncFromFront(bs, 1)

\* variant of increment_bytes_be: without the second loop, the bytes the first
\* loop has zeroed stay zero
increment_bytes_be_no_restore(bs) ==
    IF \A i \in 1..Len(bs) : bs[i] = U8_MAX
    THEN [ok |-> FALSE, bs |-> [j \in 1..Len(bs) |-> 0]]
    ELSE IncFrom(bs, Len(bs))

\* increment_bytes_be(bs): ok = TRUE for Ok(()), FALSE for Err(()); bs = the slice on return
increment_bytes_be(bs) == IncFrom(bs, Len(bs))

----------------------------------------------------------------------------
(* Extranonce and ExtendedExtranonce *)

\* core::ops::Range<usize>
Range(s, e) == [start |-> s, end |-> e]

\* struct Extranonce { head, tail }
Extranonce(h, t) == [head |-> h, tail |-> t]

\* the bounds check of inner[r.start..r.end]: the index panics unless start <= end <= len
SliceOk(r) == r.start <= r.end /\ r.end <= EXTRANONCE_LEN

\* inner[r.start..r.end]
SliceOf(inner, r) == SubSeq(inner, r.start + 1, r.end)

\* inner after the slice inner[r.start..r.end] has been overwritten with bs
WithSlice(inner, r, bs) ==
    [i \in 1..Len(inner) |->
        IF r.start < i /\ i <= r.end THEN bs[i - r.start] ELSE inner[i]]

\* struct ExtendedExtranonce { inner, range_0, range_1, range_2 }
ExtendedExtranonce(inner, r0, r1, r2) ==
    [exists |-> TRUE, inner |-> inner, range_0 |-> r0, range_1 |-> r1, range_2 |-> r2]

\* no allocator constructed yet
NoAlloc ==
    [exists |-> FALSE, inner |-> <<>>, range_0 |-> Range(0, 0),
     range_1 |-> Range(0, 0), range_2 |-> Range(0, 0)]

\* variant of From<&mut ExtendedExtranonce>: the halves are read with from_le_bytes
ExtranonceFrom_le(inner) ==
    Extranonce(FromLeBytes(SubSeq(inner, 1, HEAD_LEN)),
               FromLeBytes(SubSeq(inner, HEAD_LEN + 1, EXTRANONCE_LEN)))

\* impl From<&mut ExtendedExtranonce> for Extranonce, on the buffer
ExtranonceFrom(inner) ==
    Extranonce(FromBeBytes(SubSeq(inner, 1, HEAD_LEN)),
               FromBeBytes(SubSeq(inner, HEAD_LEN + 1, EXTRANONCE_LEN)))

\* [head, tail].concat() of the big-endian bytes of an Extranonce
ExtranonceBytes(v) == ToBeBytes(v.head, HEAD_LEN) \o ToBeBytes(v.tail, TAIL_LEN)

\* variant of NewAsserts: the assert!(range_1.end == range_2.start) is missing
NewAssertsNoContiguity(r0, r1, r2) ==
    /\ r0.start = 0
    /\ r0.end = r1.start
    /\ r2.end = EXTRANONCE_LEN

\* the four assert!s of ExtendedExtranonce::new
NewAsserts(r0, r1, r2) ==
    /\ r0.start = 0
    /\ r0.end = r1.start
    /\ r1.end = r2.start
    /\ r2.end = EXTRANONCE_LEN

\* ExtendedExtranonce::new: ret = "Some" with the allocator, or "panic"
new(r0, r1, r2) ==
    IF NewAsserts(r0, r1, r2)
    THEN [ret |-> "Some",
          alloc |-> ExtendedExtranonce([i \in 1..EXTRANONCE_LEN |-> 0], r0, r1, r2)]
    ELSE [ret |-> "panic", alloc |-> NoAlloc]

\* the one assert! of ExtendedExtranonce::from_extranonce
FromExtranonceAsserts(r0, r1, r2) == r2.end = EXTRANONCE_LEN

\* ExtendedExtranonce::from_extranonce: ret = "Some" with the allocator, or "panic"
from_extranonce(v, r0, r1, r2) ==
    IF FromExtranonceAsserts(r0, r1, r2)
    THEN [ret |-> "Some",
          alloc |-> ExtendedExtranonce(ExtranonceBytes(v), r0, r1, r2)]
    ELSE [ret |-> "panic", alloc |-> NoAlloc]

\* ExtendedExtranonce::from_upstream_extranonce: "Some" with the allocator, "None" or "panic"
from_upstream_extranonce(v, r0, r1, r2) ==
    LET self_ == from_extranonce(v, r0, r1, r2)
        checked == Range(r1.start, r2.end)
    IN  IF self_.ret = "panic" THEN self_
        ELSE IF ~SliceOk(checked) THEN [ret |-> "panic", alloc |-> NoAlloc]
        ELSE IF \E i \in 1..Len(SliceOf(self_.alloc.inner, checked)) :
                    SliceOf(self_.alloc.inner, checked)[i] # 0
             THEN [ret |-> "None", alloc |-> NoAlloc]
        ELSE self_

\* ExtendedExtranonce::next_standard on allocator a: the outcome and the buffer on return
next_standard(a) ==
    IF ~SliceOk(a.range_2)
    THEN [ret |-> "panic", value |-> Extranonce(0, 0), inner |-> a.inner]
    ELSE LET r == increment_bytes_be(SliceOf(a.inner, a.range_2))
             inner == WithSlice(a.inner, a.range_2, r.bs)
         IN  IF r.ok
             THEN [ret |-> "Some", value |-> ExtranonceFrom(inner), inner |-> inner]
             ELSE [ret |-> "None", value |-> Extranonce(0, 0), inner |-> inner]

\* self.range_2.end - self.range_2.start in usize: "panic" when the subtraction
\* overflows and overflow checks are on, the wrapped difference when they are off
Range2Len(a, overflow_checks) ==
    IF a.range_2.start <= a.range_2.end THEN a.range_2.end - a.range_2.start
    ELSE IF overflow_checks THEN -1
    ELSE (a.range_2.end - a.range_2.start) % UsizeModulus

\* ExtendedExtranonce::next_extended on allocator a; exhausted = the None of a
\* range_1 at maximum (the increment failed)
next_extended(a, required_len, overflow_checks) ==
    LET len2 == Range2Len(a, overflow_checks)
        unchanged(ret) == [ret |-> ret, value |-> Extranonce(0, 0),
                           inner |-> a.inner, exhausted |-> FALSE]
    IN  IF len2 = -1 THEN unchanged("panic")
        ELSE IF required_len > len2 THEN unchanged("None")
        ELSE IF ~SliceOk(a.range_1) THEN unchanged("panic")
        ELSE LET r == increment_bytes_be(SliceOf(a.inner, a.range_1))
                 inner == WithSlice(a.inner, a.range_1, r.bs)
             IN  IF r.ok
                 THEN [ret |-> "Some", value |-> ExtranonceFrom(inner),
                       inner |-> inner, exhausted |-> FALSE]
                 ELSE [ret |-> "None", value |-> Extranonce(0, 0),
                       inner |-> inner, exhausted |-> TRUE]

----------------------------------------------------------------------------
(* Extranonce: the counter and its wire conversions.  The wire types U256   *)
(* and B032 are their bytes; a head takes HEAD_LEN bytes, a tail TAIL_LEN.  *)

\* variant of Extranonce::next: the arm for a tail at its maximum is missing, the
\* tail is incremented in every case that does not panic and wraps to 0 alone
Extranonce_next_no_carry(e) ==
    IF e.tail = TAIL_MAX /\ e.head = HEAD_MAX
    THEN [ret |-> "panic", e |-> e, b032 |-> <<>>]
    ELSE LET n == Extranonce(e.head, (e.tail + 1) % (TAIL_MAX + 1))
         IN  [ret |-> "Some", e |-> n,
              b032 |-> ToLeBytes(n.tail, TAIL_LEN) \o ToLeBytes(n.head, HEAD_LEN)]

\* Extranonce::next on e: ret = "Some" with self on return and the B032 returned,
\* or "panic" with self as it was
Extranonce_next(e) ==
    IF e.tail = TAIL_MAX /\ e.head = HEAD_MAX
    THEN [ret |-> "panic", e |-> e, b032 |-> <<>>]
    ELSE LET n == IF e.tail = TAIL_MAX THEN Extranonce(e.head + 1, 0)
                  ELSE Extranonce(e.head, e.tail + 1)
         IN  [ret |-> "Some", e |-> n,
              b032 |-> ToLeBytes(n.tail, TAIL_LEN) \o ToLeBytes(n.head, HEAD_LEN)]

\* impl From<Extranonce> for U256
U256_from_Extranonce(v) == ToLeBytes(v.head, HEAD_LEN) \o ToLeBytes(v.tail, TAIL_LEN)

\* impl From<U256> for Extranonce
Extranonce_from_U256(inner) ==
    Extranonce(FromLeBytes(SubSeq(inner, 1, HEAD_LEN)),
               FromLeBytes(SubSeq(inner, HEAD_LEN + 1, Len(inner))))

\* impl From<Extranonce> for B032 (and Extranonce::into_b032)
B032_from_Extranonce(v) == ToLeBytes(v.tail, TAIL_LEN) \o ToLeBytes(v.head, HEAD_LEN)

\* variant of From<B032> for Extranonce: head and tail are read in the order of
\* From<U256>, head first
Extranonce_from_B032_head_first(inner) ==
    Extranonce(FromLeBytes(SubSeq(inner, 1, HEAD_LEN)),
               FromLeBytes(SubSeq(inner, HEAD_LEN + 1, Len(inner))))

\* impl From<B032> for Extranonce, on a B032 of EXTRANONCE_LEN bytes
Extranonce_from_B032(inner) ==
    Extranonce(FromLeBytes(SubSeq(inner, TAIL_LEN + 1, Len(inner))),
               FromLeBytes(SubSeq(inner, 1, TAIL_LEN)))

\* impl From<Extranonce> for Vec<u8>
Vec_from_Extranonce(v) == ToLeBytes(v.head, HEAD_LEN) \o ToLeBytes(v.tail, TAIL_LEN)

----------------------------------------------------------------------------
(* Target *)

\* struct Target { head, tail }
Target(h, t) == [head |-> h, tail |-> t]

\* impl From<[u8; 32]> for Target
Target_from_array(v) ==
    LET r == Reverse(v)
    IN  Target(FromLeBytes(SubSeq(r, 1, HEAD_LEN)),
               FromLeBytes(SubSeq(r, HEAD_LEN + 1, Len(r))))

\* impl From<Target> for U256
U256_from_Target(v) == ToLeBytes(v.head, HEAD_LEN) \o ToLeBytes(v.tail, TAIL_LEN)

\* variant of From<U256> for Target: the tail is read from the first bytes and the
\* head from the last, the order of From<B032> for Extranonce
Target_from_U256_tail_first(inner) ==
    Target(FromLeBytes(SubSeq(inner, TAIL_LEN + 1, Len(inner))),
           FromLeBytes(SubSeq(inner, 1, TAIL_LEN)))

\* impl From<U256> for Target
Target_from_U256(inner) ==
    Target(FromLeBytes(SubSeq(inner, 1, HEAD_LEN)),
           FromLeBytes(SubSeq(inner, HEAD_LEN + 1, Len(inner))))

\* u128::cmp
U128Cmp(x, y) == IF x < y THEN "Less" ELSE IF x = y THEN "Equal" ELSE "Greater"

\* variant of Target::cmp: the tails are compared before the heads
Target_cmp_tail_first(a, b) ==
    IF a.tail = b.tail /\ a.head = b.head THEN "Equal"
    ELSE IF a.tail # b.tail THEN U128Cmp(a.tail, b.tail)
    ELSE U128Cmp(a.head, b.head)

\* impl Ord for Target: cmp
Target_cmp(a, b) ==
    IF a.tail = b.tail /\ a.head = b.head THEN "Equal"
    ELSE IF a.head # b.head THEN U128Cmp(a.head, b.head)
    ELSE U128Cmp(a.tail, b.tail)

----------------------------------------------------------------------------
(* Inputs *)

\* the ranges a caller passes: well-formed, empty, inverted and out of the buffer
Ranges == {Range(s, e) : s \in 0..EXTRANONCE_LEN + 1, e \in 0..EXTRANONCE_LEN + 1}

\* the range_0 a caller passes (no operation reads the bytes of range_0)
Ranges0 == {Range(s, e) : s \in 0..1, e \in 0..1}

\* the range_2 a caller passes
Ranges2 == {Range(s, e) : s \in 0..EXTRANONCE_LEN + 1,
                          e \in EXTRANONCE_LEN - 1..EXTRANONCE_LEN}

\* the upstream extranonces a caller passes: each byte zero or u8::MAX
Extranonces ==
    {ExtranonceFrom(bs) : bs \in [1..EXTRANONCE_LEN -> {0, U8_MAX}]}

\* the required_len a downstream asks for
RequiredLens == {0, 1, EXTRANONCE_LEN, EXTRANONCE_LEN + 1}

----------------------------------------------------------------------------
(* Actions of the allocator *)

\* the record of a call: op, outcome, returned value, buffer before the call, arguments
Call(op, ret, value, before, v, r0, r1, r2, required_len) ==
    [op |-> op, ret |-> ret, value |-> value, before |-> before, v |-> v,
     range_0 |-> r0, range_1 |-> r1, range_2 |-> r2, required_len |-> required_len]

NoCall ==
    Call("none", "none", Extranonce(0, 0), <<>>, Extranonce(0, 0),
         Range(0, 0), Range(0, 0), Range(0, 0), 0)

InitAlloc ==
    /\ alloc = NoAlloc
    /\ result = NoCall
    /\ handed = <<>>
    /\ stdNone = FALSE
    /\ extNone = FALSE
    /\ calls = 0
    /\ overflowChecks \in BOOLEAN
    /\ created = "none"

InitSlice ==
    /\ slice = <<>>
    /\ sliceBefore = <<>>
    /\ incResult = "none"

\* the record of a call of Extranonce::next: self before, outcome, self on return,
\* the B032 returned
NextCall(before, ret, after, b032) ==
    [before |-> before, ret |-> ret, after |-> after, b032 |-> b032]

NoNextCall == NextCall(Extranonce(0, 0), "none", Extranonce(0, 0), <<>>)

\* the record of a wire conversion: operation, the Extranonce converted, its wire
\* bytes, the Extranonce read back from them
Conv(op, from, bytes, back) == [op |-> op, from |-> from, bytes |-> bytes, back |-> back]

NoConv == Conv("none", Extranonce(0, 0), <<>>, Extranonce(0, 0))

\* no Extranonce is under test
InitExtranonceIdle ==
    /\ extranonce = Extranonce(0, 0)
    /\ nextResult = NoNextCall
    /\ nextStart = Extranonce(0, 0)
    /\ nextCalls = 0
    /\ conv = NoConv

\* a Target not yet built
NoTarget == Target(-1, -1)

\* the names of the three Targets compared
TargetNames == {"A", "B", "C"}

NoOrd == [p \in TargetNames \X TargetNames |-> "none"]

NoTrip == [u256 |-> <<>>, back |-> NoTarget]

\* no Target is under test
InitTargetIdle ==
    /\ wireA = <<>>
    /\ wireB = <<>>
    /\ tgtA = NoTarget
    /\ tgtB = NoTarget
    /\ tgtC = NoTarget
    /\ tgtOrd = NoOrd
    /\ tgtTrip = NoTrip

(***************************************************************************)
(* Noise: the handshake and the record layer of noise-sv2.  lib.rs holds   *)
(* NoiseCodec and declares the modules aed_cipher, cipher_state, handshake,*)
(* initiator, responder and signature_message; the definitions for those   *)
(* modules follow the specification's sections 3, 4.1, 4.2, 4.3, 6 and 7.  *)
(* Cryptography is symbolic: a hash is the sequence of what was mixed in,  *)
(* a derived key is the chaining key it was derived from with the index of *)
(* the output, a ciphertext carries the key, nonce and associated data it  *)
(* was sealed under and opens only under the same three.  The handshake    *)
(* timeout and the static key's parity are not modelled.                   *)
(***************************************************************************)
Roles == {"I", "R"}

Dirs == {"IR", "RI"}

\* the direction a role writes to and the one it reads from
SendDir(role) == IF role = "I" THEN "IR" ELSE "RI"

RecvDir(role) == IF role = "I" THEN "RI" ELSE "IR"

\* length of the AEAD authentication tag
TAG_LEN == 16

\* length of an ElligatorSwift encoding of a public key
ELLSWIFT_LEN == 64

\* length of the signature payload: version, valid_from, not_valid_after, signature
SIGNATURE_PAYLOAD_LEN == 74

\* the largest value of a CipherState's nonce counter
NONCE_MAX == 2 ^ NonceBits - 1

\* the one error value of GenericCipher's and NoiseCodec's encrypt and decrypt
aes_gcm_Error == "aes_gcm::Error"

\* an ElligatorSwift encoding: the public key it decodes to, which of the key's
\* encodings it is, and its length on the wire
ElligatorSwift(point, enc, len) == [point |-> point, enc |-> enc, len |-> len]

NoElligatorSwift == ElligatorSwift("none", 0, 0)

\* the shared secret of a key pair and a remote public key
Dh(local, remote) == {local.point, remote.point}

\* output `out` of HKDF over the chaining key `ck`
HkdfKey(ck, out) == [ck |-> ck, out |-> out]

NoKey == HkdfKey(<<>>, 0)

CipherState(k, n) == [k |-> k, n |-> n]

NoCipher == CipherState(NoKey, 0)

\* ChaCha20-Poly1305 sealing of pt (len bytes) under key k, nonce n, associated data ad
AeadEncrypt(k, n, ad, pt, len) ==
    [k |-> k, n |-> n, ad |-> ad, pt |-> pt, len |-> len + TAG_LEN, intact |-> TRUE]

\* the tag check of ChaCha20-Poly1305 opening
AeadOpens(k, n, ad, ct) == ct.intact /\ ct.k = k /\ ct.n = n /\ ct.ad = ad

NoCiphertext == AeadEncrypt(NoKey, 0, <<>>, <<>>, 0 - TAG_LEN)

\* a ciphertext with one bit changed
FlipBit(ct) == [ct EXCEPT !.intact = FALSE]

\* GenericCipher::encrypt (specification 4.1): seals the buffer in place under the
\* current counter and appends the tag, then increments the counter; refuses at the
\* counter's maximum, with the one error its return type has
GenericCipher_encrypt(cs, msg) ==
    IF cs.n = NONCE_MAX
    THEN [ret |-> aes_gcm_Error, cs |-> cs, pt |-> msg, ct |-> NoCiphertext]
    ELSE [ret |-> "Ok", cs |-> [cs EXCEPT !.n = @ + 1], pt |-> msg,
          ct |-> AeadEncrypt(cs.k, cs.n, <<>>, msg, Len(msg))]

\* a GenericCipher::decrypt that does not check the nonce
GenericCipher_decrypt_any_nonce(cs, msg) ==
    IF cs.n = NONCE_MAX
    THEN [ret |-> aes_gcm_Error, cs |-> cs, pt |-> <<>>, ct |-> msg]
    ELSE IF AeadOpens(cs.k, msg.n, <<>>, msg)
    THEN [ret |-> "Ok", cs |-> [cs EXCEPT !.n = @ + 1], pt |-> msg.pt, ct |-> msg]
    ELSE [ret |-> aes_gcm_Error, cs |-> cs, pt |-> <<>>, ct |-> msg]

\* GenericCipher::decrypt (specification 4.1): checks and strips the tag under the
\* current counter, then increments the counter; DecryptAuth on a tag mismatch
GenericCipher_decrypt(cs, msg) ==
    IF cs.n = NONCE_MAX
    THEN [ret |-> aes_gcm_Error, cs |-> cs, pt |-> <<>>, ct |-> msg]
    ELSE IF AeadOpens(cs.k, cs.n, <<>>, msg)
    THEN [ret |-> "Ok", cs |-> [cs EXCEPT !.n = @ + 1], pt |-> msg.pt, ct |-> msg]
    ELSE [ret |-> aes_gcm_Error, cs |-> cs, pt |-> <<>>, ct |-> msg]

NoiseCodec(encryptor, decryptor) ==
    [exists |-> TRUE, encryptor |-> encryptor, decryptor |-> decryptor]

NoCodec == [exists |-> FALSE, encryptor |-> NoCipher, decryptor |-> NoCipher]

\* a NoiseCodec::encrypt that uses the decryptor
NoiseCodec_encrypt_with_decryptor(self, msg) ==
    LET r == GenericCipher_encrypt(self.decryptor, msg)
    IN  [ret |-> r.ret, self |-> [self EXCEPT !.decryptor = r.cs], pt |-> r.pt, ct |-> r.ct]

\* NoiseCodec::encrypt
NoiseCodec_encrypt(self, msg) ==
    LET r == GenericCipher_encrypt(self.encryptor, msg)
    IN  [ret |-> r.ret, self |-> [self EXCEPT !.encryptor = r.cs], pt |-> r.pt, ct |-> r.ct]

\* a NoiseCodec::decrypt that also advances the encryptor's counter
NoiseCodec_decrypt_advancing_encryptor(self, msg) ==
    LET r == GenericCipher_decrypt(self.decryptor, msg)
    IN  [ret |-> r.ret,
         self |-> [self EXCEPT !.decryptor = r.cs,
                               !.encryptor.n = IF r.ret = "Ok" THEN @ + 1 ELSE @],
         pt |-> r.pt, ct |-> r.ct]

\* a NoiseCodec::decrypt that uses the encryptor
NoiseCodec_decrypt_with_encryptor(self, msg) ==
    LET r == GenericCipher_decrypt(self.encryptor, msg)
    IN  [ret |-> r.ret, self |-> [self EXCEPT !.encryptor = r.cs], pt |-> r.pt, ct |-> r.ct]

\* NoiseCodec::decrypt
NoiseCodec_decrypt(self, msg) ==
    LET r == GenericCipher_decrypt(self.decryptor, msg)
    IN  [ret |-> r.ret, self |-> [self EXCEPT !.decryptor = r.cs], pt |-> r.pt, ct |-> r.ct]

(* the handshake *)
\* the protocol name both roles start the handshake hash from
NOISE_HASHED_PROTOCOL_NAME_CHACHA == [prologue |-> "Noise_NX_Secp256k1+EllSwift_ChaChaPoly_SHA256"]

HandshakeState(state, h, ck, k, re, rs, error) ==
    [state |-> state, h |-> h, ck |-> ck, k |-> k, re |-> re, rs |-> rs, error |-> error]

\* the handshake state a role is constructed with
HandshakeStart ==
    HandshakeState("Start", <<NOISE_HASHED_PROTOCOL_NAME_CHACHA>>, <<>>, NoKey,
                   NoElligatorSwift, NoElligatorSwift, "none")

\* mix_hash: h <- SHA256(h || data)
mix_hash(st, data) == [st EXCEPT !.h = Append(@, data)]

\* mix_key: (ck, temp_k) <- HKDF(ck, input_material, 2)
mix_key(st, ikm) ==
    [st EXCEPT !.ck = Append(@, ikm), !.k = HkdfKey(Append(st.ck, ikm), 2)]

\* encrypt_and_hash: seals with h as associated data, then mixes the ciphertext in
encrypt_and_hash(st, pt, len) ==
    LET ct == AeadEncrypt(st.k, 0, st.h, pt, len)
    IN  [st |-> mix_hash(st, ct), ct |-> ct]

\* a decrypt_and_hash that opens without the handshake hash as associated data
decrypt_and_hash_no_ad(st, ct) ==
    [st |-> mix_hash(st, ct), ok |-> AeadOpens(st.k, 0, ct.ad, ct), pt |-> ct.pt]

\* decrypt_and_hash: opens with h as associated data; mixes the ciphertext in
\* whether or not it opened
decrypt_and_hash(st, ct) ==
    [st |-> mix_hash(st, ct), ok |-> AeadOpens(st.k, 0, st.h, ct), pt |-> ct.pt]

\* the first and the second CipherState of HKDF(ck, empty, 2), counters 0
SplitFirst(st) == CipherState(HkdfKey(Append(st.ck, {}), 1), 0)

SplitSecond(st) == CipherState(HkdfKey(Append(st.ck, {}), 2), 0)

\* the Initiator's and the Responder's ephemeral key, the Responder's static key
INITIATOR_E == ElligatorSwift("e_i", 0, ELLSWIFT_LEN)

RESPONDER_E == ElligatorSwift("e_r", 0, ELLSWIFT_LEN)

RESPONDER_S == ElligatorSwift("s_r", 0, ELLSWIFT_LEN)

\* a Schnorr signature by the secret key of `signer` over a message
Sign(signer, over) == [signer |-> signer, over |-> over]

\* the signature payload (specification 6)
SignatureNoiseMessage(version, valid_from, not_valid_after, signature) ==
    [version |-> version, valid_from |-> valid_from,
     not_valid_after |-> not_valid_after, signature |-> signature]

\* what the authority signs: the certificate's fields and the static key
Certified(version, valid_from, not_valid_after, static) ==
    <<version, valid_from, not_valid_after, static.point>>

\* Responder::from_authority_kp and the certificate the Responder sends: valid from
\* the Responder's clock for cert_validity
ResponderCertificate(authority, now, cert_validity) ==
    SignatureNoiseMessage(0, now, now + cert_validity,
        Sign(authority, Certified(0, now, now + cert_validity, RESPONDER_S)))

\* the Initiator's Schnorr verification against the authority key it was given
SignatureVerifies(m, static, authority) ==
    /\ m.signature.signer = authority
    /\ m.signature.over = Certified(m.version, m.valid_from, m.not_valid_after, static)

\* a validity check that looks at the start of the window only
CertificateWindow_no_expiry(m, now) ==
    IF now < m.valid_from THEN "CertificateNotYetValid" ELSE "Ok"

\* the Initiator's validity check: the window is [valid_from, not_valid_after]
CertificateWindow(m, now) ==
    IF now < m.valid_from THEN "CertificateNotYetValid"
    ELSE IF now > m.not_valid_after THEN "CertificateExpired"
    ELSE "Ok"

\* message 2 as the Responder writes it: e, the sealed static key, the sealed
\* signature payload; len is the length of the whole message
Message2(e, s, sig, len) == [e |-> e, s |-> s, sig |-> sig, len |-> len]

MESSAGE_2_LEN == ELLSWIFT_LEN + (ELLSWIFT_LEN + TAG_LEN) + (SIGNATURE_PAYLOAD_LEN + TAG_LEN)

Fail(st, error) == [st EXCEPT !.state = "Failed", !.error = error]

\* the Initiator writing message 1
Initiator_step_0(st) == [mix_hash(st, INITIATOR_E) EXCEPT !.state = "SentE"]

\* the Responder after reading message 1
Responder_step_0(st, e_i) ==
    IF e_i.len # ELLSWIFT_LEN
    THEN Fail(st, "MalformedFrame")
    ELSE [mix_hash(st, e_i) EXCEPT !.state = "ReceivedE", !.re = e_i]

\* the Responder writing message 2: the state it is left in and the message
Responder_step_1(st, certificate) ==
    LET st1 == mix_hash(st, RESPONDER_E)
        st2 == mix_key(st1, Dh(RESPONDER_E, st.re))
        s   == encrypt_and_hash(st2, RESPONDER_S, ELLSWIFT_LEN)
        st3 == mix_key(s.st, Dh(RESPONDER_S, st.re))
        sig == encrypt_and_hash(st3, certificate, SIGNATURE_PAYLOAD_LEN)
    IN  [st  |-> [sig.st EXCEPT !.state = "SentEandS"],
         msg |-> Message2(RESPONDER_E, s.ct, sig.ct, MESSAGE_2_LEN)]

\* the Initiator reading message 2: reverses each step of the Responder, then
\* verifies the signature against the authority key and checks the window
Initiator_step_1(st, m, authority, now) ==
    IF m.len # MESSAGE_2_LEN THEN Fail(st, "MalformedFrame")
    ELSE
    LET st1 == mix_hash(st, m.e)
        st2 == mix_key(st1, Dh(INITIATOR_E, m.e))
        s   == decrypt_and_hash(st2, m.s)
        st3 == mix_key(s.st, Dh(INITIATOR_E, s.pt))
        sig == decrypt_and_hash(st3, m.sig)
    IN  IF ~s.ok THEN Fail(s.st, "DecryptAuth")
        ELSE IF ~sig.ok THEN Fail(sig.st, "DecryptAuth")
        ELSE IF ~SignatureVerifies(sig.pt, s.pt, authority)
        THEN Fail(sig.st, "SignatureVerify")
        ELSE IF CertificateWindow(sig.pt, now) # "Ok"
        THEN Fail(sig.st, CertificateWindow(sig.pt, now))
        ELSE [sig.st EXCEPT !.state = "ReceivedEandS", !.re = m.e, !.rs = s.pt]

\* a split that gives both roles the first CipherState to write with
SplitCodec_unswapped(st, role) ==
    NoiseCodec(SplitFirst(st), SplitSecond(st))

\* Split: the first CipherState is for Initiator to Responder, the second for the
\* reverse
SplitCodec(st, role) ==
    IF role = "I" THEN NoiseCodec(SplitFirst(st), SplitSecond(st))
    ELSE NoiseCodec(SplitSecond(st), SplitFirst(st))

(* the setting of one connection *)
\* the authority keys an Initiator may have been given; the Responder's certificate
\* is signed by the first
AUTHORITY == "authority"

Authorities == {AUTHORITY, "other"}

\* largest clock value
MaxClock == 3

\* largest cert_validity
MaxValidity == 1

Clock == 0 .. MaxClock

\* reliable: nothing changes a handshake message in transit; expected: the authority
\* key the Initiator was given; r_now, i_now: the clocks of the two roles
Cfg(reliable, expected, r_now, cert_validity, i_now) ==
    [reliable |-> reliable, expected |-> expected, r_now |-> r_now,
     cert_validity |-> cert_validity, i_now |-> i_now]

Cfgs ==
    {Cfg(rel, a, r, v, i) : rel \in BOOLEAN, a \in Authorities,
                            r \in 1 .. (MaxClock - 2), v \in 0 .. MaxValidity, i \in Clock}

\* a reliable channel, matching authority keys, the Initiator's clock in the window
HonestCfg == Cfg(TRUE, AUTHORITY, 1, MaxValidity, 1)

Certificate(c) == ResponderCertificate(AUTHORITY, c.r_now, c.cert_validity)

InWindow(c) == c.r_now <= c.i_now /\ c.i_now <= c.r_now + c.cert_validity

\* the state of a connection's record layer
Connection(tainted, closed) == [tainted |-> tainted, closed |-> closed]

\* the record of a NoiseCodec call: role, operation, outcome, the key and counter of
\* the CipherState used before the call and its counter after, the plaintext and the
\* ciphertext of the buffer
Op(role, op, ret, k, n, after, pt, ct) ==
    [role |-> role, op |-> op, ret |-> ret, k |-> k, n |-> n, after |-> after,
     pt |-> pt, ct |-> ct]

NoOp == Op("none", "none", "none", NoKey, 0, 0, <<>>, NoCiphertext)

\* the plaintexts a role sends as its record number n: one or two bytes, no two
\* records in a row alike
Payloads(n) == {[i \in 1 .. (n % 2) + 1 |-> n % (U8_MAX + 1)]}

\* both roles constructed, no message sent
InitHandshake(c) ==
    /\ cfg = c
    /\ hs = [r \in Roles |-> HandshakeStart]
    /\ hsPath = [r \in Roles |-> <<"Start">>]
    /\ msg1 = <<>>
    /\ msg2 = <<>>
    /\ flipped = "none"
    /\ codec = [r \in Roles |-> NoCodec]

InitRecord ==
    /\ conn = [r \in Roles |-> Connection(FALSE, FALSE)]
    /\ wire = [d \in Dirs |-> <<>>]
    /\ sentLog = [d \in Dirs |-> <<>>]
    /\ delivered = [d \in Dirs |-> <<>>]
    /\ lastOp = NoOp
    /\ meddled = 0

\* no connection is under test
InitNoiseIdle == InitHandshake(HonestCfg) /\ InitRecord

----------------------------------------------------------------------------
(* The roles: translator *)

\* status::State, what a task reports on the status channel
States == {"DownstreamShutdown", "BridgeShutdown", "UpstreamShutdown", "Healthy"}

\* the tasks behind the Upstream, the Bridge and the Downstream listener
Components == {"upstream", "bridge", "downstream"}

\* the State a component reports when it goes down
ShutdownOf(kind) ==
    CASE kind = "upstream" -> "UpstreamShutdown"
      [] kind = "bridge" -> "BridgeShutdown"
      [] kind = "downstream" -> "DownstreamShutdown"

\* a spawned task: the init task of start ("init") or a component; start is the
\* call of start it belongs to (1 for the first), stage the init task's position
Task(kind, start, state, stage) ==
    [kind |-> kind, start |-> start, state |-> state, stage |-> stage]

\* the translator before main runs
InitTranslator ==
    /\ cancellation_token = FALSE
    /\ rx_status = <<>>
    /\ tasks = <<>>
    /\ mainPc = "main"
    /\ starts = 0
    /\ shutdowns = 0

----------------------------------------------------------------------------
(* The roles: jd-server, the JDsMempool *)

\* a Transaction, written as its Txid
Txids == 1 .. MaxTx

\* the two kinds of url: with and without "http" in it
Urls == {"http://127.0.0.1:8332", "127.0.0.1:8332"}

None == [some |-> FALSE]

Some(v) == [some |-> TRUE, val |-> v]

\* JDsMempool::get_client: a client when the url contains "http"
get_client(u) == IF u = "http://127.0.0.1:8332" THEN Some("MiniRpcClient") ELSE None

\* roles_logic_sv2::utils::get_short_hash: the 6-byte short id of a Txid under a
\* nonce, here a hash into SHORT_ID_SPACE values
get_short_hash(id, nonce) == (id * (nonce + 1)) % SHORT_ID_SPACE

\* the nonces: under some all short ids differ, under others two are the same
Nonces == 0 .. SHORT_ID_SPACE

\* the loop of to_short_ids from position i on; a second insert under one key
\* returns the old value and the function returns None (the mutant goes on)
RECURSIVE to_short_ids_overwriting_from(_, _, _, _)
to_short_ids_overwriting_from(mp, nonce, i, ret) ==
    IF i > Len(mp) THEN Some(ret)
    ELSE LET s_id == get_short_hash(mp[i], nonce)
         IN  to_short_ids_overwriting_from(mp, nonce, i + 1,
                 [k \in DOMAIN ret \cup {s_id} |-> IF k = s_id THEN mp[i] ELSE ret[k]])

to_short_ids_overwriting(mp, nonce) == to_short_ids_overwriting_from(mp, nonce, 1, <<>>)

RECURSIVE to_short_ids_from(_, _, _, _)
to_short_ids_from(mp, nonce, i, ret) ==
    IF i > Len(mp) THEN Some(ret)
    ELSE LET s_id == get_short_hash(mp[i], nonce)
         IN  IF s_id \in DOMAIN ret THEN None
             ELSE to_short_ids_from(mp, nonce, i + 1,
                      [k \in DOMAIN ret \cup {s_id} |-> IF k = s_id THEN mp[i] ELSE ret[k]])

\* JDsMempool::to_short_ids
to_short_ids(mp, nonce) == to_short_ids_from(mp, nonce, 1, <<>>)

\* the sequences over S without repetition
RECURSIVE Orderings(_)
Orderings(S) ==
    IF S = {} THEN {<<>>}
    ELSE UNION {{<<x>> \o o : o \in Orderings(S \ {x})} : x \in S}

\* what get_raw_mempool_verbose can return: the txids in the node's mempool
NodeMempools == UNION {Orderings(S) : S \in SUBSET Txids}

\* the end of update_mempool, the mutant: the new list is stored whatever it is
update_mempool_storing_empty(stored, mempool_ordered) ==
    IF mempool_ordered = <<>>
    THEN [ret |-> "EmptyMempool", mempool |-> mempool_ordered]
    ELSE [ret |-> "Ok", mempool |-> mempool_ordered]

\* the end of update_mempool: Err(EmptyMempool) and the stored list as it was,
\* or Ok(()) with x.mempool = new_mempool_
update_mempool_result(stored, mempool_ordered) ==
    IF mempool_ordered = <<>>
    THEN [ret |-> "EmptyMempool", mempool |-> stored]
    ELSE [ret |-> "Ok", mempool |-> mempool_ordered]

\* an update_mempool call: pc is where it is, ids the txids still to fetch,
\* mempool_ordered the list built so far, ret its return value, n the calls so far
Update(pc, ids, mempool_ordered, ret, n) ==
    [pc |-> pc, ids |-> ids, mempool_ordered |-> mempool_ordered, ret |-> ret, calls |-> n]

ReaderOp(op, nonce, seen, ret) == [op |-> op, nonce |-> nonce, seen |-> seen, ret |-> ret]

\* JDsMempool::new: an empty mempool
InitMempool(u) ==
    /\ url = u
    /\ mempool = <<>>
    /\ update = Update("idle", <<>>, <<>>, "none", 0)
    /\ readerOp = ReaderOp("none", 0, <<>>, None)

----------------------------------------------------------------------------
(* The roles: jd-server, a JobDeclaratorDownstream and the on_submit task *)

\* the frames a downstream sends: the job declaration messages, a frame whose
\* message handle_message_job_declaration rejects, and a frame that is no Sv2 frame
Frames == {"AllocateMiningJobToken", "DeclareMiningJob", "IdentifyTransactionsSuccess",
           "SubmitSolution", "Invalid", "HandShake"}

\* ParseClientJobDeclarationMessages::handle_message_job_declaration: the SendTo
\* or the error, and declared_mining_job after it; job numbers the declaration
handle_message_job_declaration(declared, message, job) ==
    CASE message = "AllocateMiningJobToken" ->
            [ret |-> "Respond", message |-> "AllocateMiningJobTokenSuccess", declared |-> declared]
      [] message = "DeclareMiningJob" ->
            [ret |-> "Respond", message |-> "DeclareMiningJobSuccess", declared |-> Some(job)]
      [] message = "IdentifyTransactionsSuccess" ->
            [ret |-> "None", message |-> "none", declared |-> declared]
      [] message = "SubmitSolution" ->
            [ret |-> "RelayNewMessage", message |-> "SubmitSolution", declared |-> declared]
      [] OTHER ->
            [ret |-> "Err", message |-> "none", declared |-> declared]

\* the hex of the block built from a declared job and a solution
BlockHex(job, solution) == [job |-> job, solution |-> solution]

\* get_block_hex, the mutant: the declared job is read and left in place
get_block_hex_cloning(declared, solution) ==
    IF declared.some
    THEN [panic |-> FALSE, hexdata |-> BlockHex(declared.val, solution), declared |-> declared]
    ELSE [panic |-> TRUE, hexdata |-> BlockHex(0, solution), declared |-> None]

\* JobDeclaratorDownstream::get_block_hex: declared_mining_job.take(), then the
\* block of the job taken; todo!() when there was none
get_block_hex(declared, solution) ==
    IF declared.some
    THEN [panic |-> FALSE, hexdata |-> BlockHex(declared.val, solution), declared |-> None]
    ELSE [panic |-> TRUE, hexdata |-> BlockHex(0, solution), declared |-> None]

\* the Err arm of the receive loop, the mutant: the loop goes on
HandlerErrorArm_continue(rcv) == [pc |-> "recv", receiver |-> rcv]

\* the Err arm of the receive loop after the status is sent: recv.close(); break
HandlerErrorArm(rcv) == [pc |-> "ended", receiver |-> [rcv EXCEPT !.closed = TRUE]]

\* JobDeclaratorDownstream::new and the channels main creates
InitDownstream ==
    /\ declared_mining_job = None
    /\ receiver = [closed |-> FALSE]
    /\ loopPc = "recv"
    /\ handled = <<>>
    /\ sender = <<>>
    /\ status_tx = <<>>
    /\ submit_solution = <<>>
    /\ sentHex = <<>>
    /\ submitted = <<>>
    /\ onSubmitPc = "idle"

----------------------------------------------------------------------------
(* The message-generator: the results of an action in Executor::execute *)

\* the messages of the job declaration protocol execute matches on
JobDeclarationTypes ==
    {"AllocateMiningJobTokenSuccess", "AllocateMiningJobToken", "DeclareMiningJob",
     "DeclareMiningJobSuccess", "DeclareMiningJobError", "IdentifyTransactions",
     "IdentifyTransactionsSuccess", "ProvideMissingTransactions",
     "ProvideMissingTransactionsSuccess"}

\* a received frame: its subprotocol, its message type and the message's fields
Message(subprotocol, type, request_id) ==
    [subprotocol |-> subprotocol, type |-> type, fields |-> [request_id |-> request_id]]

FieldValues == 0 .. 1

Messages ==
    {Message("JobDeclarationProtocol", t, v) : t \in JobDeclarationTypes, v \in FieldValues}
        \cup {Message("CommonMessages", "SetupConnectionSuccess", 0)}

\* the name of a field of a message and the Sv2Type expected in it
Field(name, value) == [name |-> name, value |-> value]

\* the field_data of a test: no field, a field of the message, a field it has not
FieldData ==
    {<<>>} \cup {<<Field("request_id", v)>> : v \in FieldValues}
           \cup {<<Field("request_id", 0), Field("mining_job_token", 0)>>}

MatchMessageType(message_type) == [result |-> "MatchMessageType", message_type |-> message_type]

MatchMessageField(subprotocol, message_type, field_data) ==
    [result |-> "MatchMessageField", subprotocol |-> subprotocol,
     message_type |-> message_type, field_data |-> field_data]

ActionResults ==
    {MatchMessageType(t) : t \in JobDeclarationTypes}
        \cup {MatchMessageField("JobDeclarationProtocol", t, fd) :
                t \in JobDeclarationTypes, fd \in FieldData}

\* check_msg_field: the field must be there and equal the expected value
check_msg_field(msg, field) ==
    IF field.name \notin DOMAIN msg THEN "panic: match_message_field field name is not valid"
    ELSE IF msg[field.name] # field.value THEN "panic: match_message_field value is incorrect"
    ELSE "ok"

\* check_each_field: check_msg_field on each field in turn, up to the first panic
RECURSIVE check_each_field(_, _)
check_each_field(msg, field_info) ==
    IF field_info = <<>> THEN "ok"
    ELSE LET first == check_msg_field(msg, Head(field_info))
         IN  IF first # "ok" THEN first ELSE check_each_field(msg, Tail(field_info))

\* the string each arm of the JobDeclarationProtocol match compares message_type with
ArmName(type) ==
    CASE type \in {"AllocateMiningJobTokenSuccess", "AllocateMiningJobToken",
                   "DeclareMiningJob", "DeclareMiningJobSuccess"} -> type
      [] type = "DeclareMiningJobError" -> "DeclareMiningJobSuccess"
      [] OTHER -> "AllocateMiningJobTokenSuccess"

\* the MatchMessageField arm for the JobDeclarationProtocol: the arm of the
\* message received checks the fields when message_type is the string it
\* compares with, and does nothing otherwise
match_message_field(message, res) ==
    IF message.subprotocol # "JobDeclarationProtocol" THEN "panic: err"
    ELSE IF res.message_type = ArmName(message.type)
         THEN check_each_field(message.fields, res.field_data)
         ELSE "ok"

\* the MatchMessageType arm
match_message_type(message, res) ==
    IF message.type # res.message_type THEN "failed" ELSE "ok"

\* execute: pc is "running", "returned" or "panicked", success its flag, results
\* the number of results worked on, res and message the last of them
Executor(pc, success, results, res, message, panic) ==
    [pc |-> pc, success |-> success, results |-> results, result |-> res,
     message |-> message, panic |-> panic]

InitExecutor ==
    /\ executor = Executor("running", TRUE, 0, MatchMessageType("none"),
                           Message("none", "none", 0), "none")
    /\ unsatisfied = FALSE

InitRolesIdle ==
    InitTranslator /\ InitMempool("http://127.0.0.1:8332") /\ InitDownstream /\ InitExecutor

\* a caller constructs the allocator with ExtendedExtranonce::new
New ==
    /\ result.op = "none"
    /\ \E r0 \in Ranges0, r1 \in Ranges, r2 \in Ranges2 :
          LET out == new(r0, r1, r2)
          IN  /\ alloc' = out.alloc
              /\ result' = Call("new", out.ret, Extranonce(0, 0), <<>>,
                                Extranonce(0, 0), r0, r1, r2, 0)
              /\ created' = IF out.ret = "Some" THEN "new" ELSE created
    /\ UNCHANGED <<handed, stdNone, extNone, calls, overflowChecks>>

\* a caller constructs the allocator with ExtendedExtranonce::from_upstream_extranonce
FromUpstreamExtranonce ==
    /\ result.op = "none"
    /\ \E v \in Extranonces, r0 \in Ranges0, r1 \in Ranges, r2 \in Ranges2 :
          LET out == from_upstream_extranonce(v, r0, r1, r2)
          IN  /\ alloc' = out.alloc
              /\ result' = Call("from_upstream_extranonce", out.ret, Extranonce(0, 0),
                                <<>>, v, r0, r1, r2, 0)
              /\ created' = IF out.ret = "Some" THEN "from_upstream_extranonce"
                             ELSE created
    /\ UNCHANGED <<handed, stdNone, extNone, calls, overflowChecks>>

\* one call of next_standard
NextStandardCall ==
    /\ alloc.exists
    /\ calls < MaxCalls
    /\ calls' = calls + 1
    /\ LET out == next_standard(alloc)
       IN  /\ alloc' = [alloc EXCEPT !.inner = out.inner]
           /\ result' = Call("next_standard", out.ret, out.value, alloc.inner,
                             Extranonce(0, 0), Range(0, 0), Range(0, 0), Range(0, 0), 0)
           /\ handed' = IF out.ret = "Some"
                        THEN Append(handed, [op |-> "next_standard", value |-> out.value])
                        ELSE handed
           /\ stdNone' = (stdNone \/ out.ret = "None")
    /\ UNCHANGED <<extNone, overflowChecks, created>>

\* one call of next_extended(required_len)
NextExtendedCall ==
    /\ alloc.exists
    /\ calls < MaxCalls
    /\ calls' = calls + 1
    /\ \E required_len \in RequiredLens :
          LET out == next_extended(alloc, required_len, overflowChecks)
          IN  /\ alloc' = [alloc EXCEPT !.inner = out.inner]
              /\ result' = Call("next_extended", out.ret, out.value, alloc.inner,
                                Extranonce(0, 0), Range(0, 0), Range(0, 0), Range(0, 0),
                                required_len)
              /\ handed' = IF out.ret = "Some"
                           THEN Append(handed, [op |-> "next_extended", value |-> out.value])
                           ELSE handed
              /\ extNone' = (extNone \/ out.exhausted)
    /\ UNCHANGED <<stdNone, overflowChecks, created>>

NextStandard ==
    NextStandardCall /\ UNCHANGED <<sliceVars, extranonceVars, targetVars, noiseVars, roleVars>>

NextExtended ==
    NextExtendedCall /\ UNCHANGED <<sliceVars, extranonceVars, targetVars, noiseVars, roleVars>>

Construct ==
    (New \/ FromUpstreamExtranonce) /\ UNCHANGED <<sliceVars, extranonceVars, targetVars, noiseVars, roleVars>>

Init ==
    InitAlloc /\ InitSlice /\ InitExtranonceIdle /\ InitTargetIdle /\ InitNoiseIdle /\ InitRolesIdle

Next == Construct \/ NextStandard \/ NextExtended

Spec == Init /\ [][Next]_vars

----------------------------------------------------------------------------
(* increment_bytes_be on its own: the slice is any byte string up to MaxSliceLen *)

Slices == UNION {[1..n -> Byte] : n \in 0..MaxSliceLen}

InitInc ==
    /\ slice \in Slices
    /\ sliceBefore = slice
    /\ incResult = "none"
    /\ alloc = NoAlloc
    /\ result = NoCall
    /\ handed = <<>>
    /\ stdNone = FALSE
    /\ extNone = FALSE
    /\ calls = 0
    /\ overflowChecks = TRUE
    /\ created = "none"
    /\ InitExtranonceIdle
    /\ InitTargetIdle
    /\ InitRolesIdle
    /\ InitNoiseIdle

\* one call increment_bytes_be(&mut slice)
IncrementBytesBe ==
    /\ incResult = "none"
    /\ LET r == increment_bytes_be(slice)
       IN  /\ slice' = r.bs
           /\ sliceBefore' = slice
           /\ incResult' = IF r.ok THEN "Ok" ELSE "Err"
    /\ UNCHANGED <<allocVars, extranonceVars, targetVars, noiseVars, roleVars>>

SpecInc == InitInc /\ [][IncrementBytesBe]_vars

----------------------------------------------------------------------------
(* Extranonce on its own: the counter Extranonce::next and the wire conversions *)

\* every Extranonce: every pair of a head and a tail
AllExtranonces == {Extranonce(h, t) : h \in 0..HEAD_MAX, t \in 0..TAIL_MAX}

InitNext ==
    /\ extranonce \in AllExtranonces
    /\ nextStart = extranonce
    /\ nextCalls = 0
    /\ nextResult = NoNextCall
    /\ conv = NoConv
    /\ alloc = NoAlloc
    /\ result = NoCall
    /\ handed = <<>>
    /\ stdNone = FALSE
    /\ extNone = FALSE
    /\ calls = 0
    /\ overflowChecks = TRUE
    /\ created = "none"
    /\ InitSlice
    /\ InitTargetIdle
    /\ InitRolesIdle
    /\ InitNoiseIdle

\* one call extranonce.next(); a panic ends the thread that owns the Extranonce
ExtranonceNext ==
    /\ nextResult.ret # "panic"
    /\ nextCalls < MaxNextCalls
    /\ LET out == Extranonce_next(extranonce)
       IN  /\ extranonce' = out.e
           /\ nextResult' = NextCall(extranonce, out.ret, out.e, out.b032)
           /\ nextCalls' = IF out.ret = "Some" THEN nextCalls + 1 ELSE nextCalls
    /\ UNCHANGED <<nextStart, conv>>
    /\ UNCHANGED <<allocVars, sliceVars, targetVars, noiseVars, roleVars>>

\* Extranonce::from(U256::from(extranonce.clone()))
ExtranonceU256RoundTrip ==
    /\ nextResult.ret # "panic"
    /\ LET u256 == U256_from_Extranonce(extranonce)
       IN  conv' = Conv("U256", extranonce, u256, Extranonce_from_U256(u256))
    /\ UNCHANGED <<extranonce, nextResult, nextStart, nextCalls>>
    /\ UNCHANGED <<allocVars, sliceVars, targetVars, noiseVars, roleVars>>

\* Extranonce::from(B032::from(extranonce.clone()))
ExtranonceB032RoundTrip ==
    /\ nextResult.ret # "panic"
    /\ LET b032 == B032_from_Extranonce(extranonce)
       IN  conv' = Conv("B032", extranonce, b032, Extranonce_from_B032(b032))
    /\ UNCHANGED <<extranonce, nextResult, nextStart, nextCalls>>
    /\ UNCHANGED <<allocVars, sliceVars, targetVars, noiseVars, roleVars>>

\* Vec::<u8>::from(extranonce.clone()); no conversion reads a Vec<u8> back
ExtranonceIntoVec ==
    /\ nextResult.ret # "panic"
    /\ conv' = Conv("Vec", extranonce, Vec_from_Extranonce(extranonce), extranonce)
    /\ UNCHANGED <<extranonce, nextResult, nextStart, nextCalls>>
    /\ UNCHANGED <<allocVars, sliceVars, targetVars, noiseVars, roleVars>>

NextExtranonce ==
    \/ ExtranonceNext
    \/ ExtranonceU256RoundTrip
    \/ ExtranonceB032RoundTrip
    \/ ExtranonceIntoVec

SpecExtranonce == InitNext /\ [][NextExtranonce]_vars

----------------------------------------------------------------------------
(* Target on its own: built from the wire form, compared, converted to U256 *)

\* the [u8; 32] wire arrays: each byte 0, 1 or u8::MAX
Wires == [1..EXTRANONCE_LEN -> {0, 1, U8_MAX}]

\* the third Target of a comparison: each half 0, 1 or u128::MAX
Targets == {Target(h, t) : h \in {0, 1, HEAD_MAX}, t \in {0, 1, TAIL_MAX}}

InitCmp ==
    /\ wireA \in Wires
    /\ wireB \in Wires
    /\ tgtA = NoTarget
    /\ tgtB = NoTarget
    /\ tgtC \in Targets
    /\ tgtOrd = NoOrd
    /\ tgtTrip = NoTrip
    /\ alloc = NoAlloc
    /\ result = NoCall
    /\ handed = <<>>
    /\ stdNone = FALSE
    /\ extNone = FALSE
    /\ calls = 0
    /\ overflowChecks = TRUE
    /\ created = "none"
    /\ InitSlice
    /\ InitExtranonceIdle
    /\ InitNoiseIdle
    /\ InitRolesIdle

\* the Target under its name
TargetOf(n) == IF n = "A" THEN tgtA ELSE IF n = "B" THEN tgtB ELSE tgtC

\* Target::from(wireA), Target::from(wireB)
TargetFromArray ==
    /\ tgtA = NoTarget
    /\ tgtA' = Target_from_array(wireA)
    /\ tgtB' = Target_from_array(wireB)
    /\ UNCHANGED <<wireA, wireB, tgtC, tgtOrd, tgtTrip>>
    /\ UNCHANGED <<allocVars, sliceVars, extranonceVars, noiseVars, roleVars>>

\* x.cmp(&y) for every pair x, y of the three Targets
TargetCmp ==
    /\ tgtA # NoTarget
    /\ tgtOrd = NoOrd
    /\ tgtOrd' = [p \in TargetNames \X TargetNames |->
                      Target_cmp(TargetOf(p[1]), TargetOf(p[2]))]
    /\ UNCHANGED <<wireA, wireB, tgtA, tgtB, tgtC, tgtTrip>>
    /\ UNCHANGED <<allocVars, sliceVars, extranonceVars, noiseVars, roleVars>>

\* Target::from(U256::from(tgtA.clone()))
TargetU256RoundTrip ==
    /\ tgtA # NoTarget
    /\ tgtTrip = NoTrip
    /\ LET u256 == U256_from_Target(tgtA)
       IN  tgtTrip' = [u256 |-> u256, back |-> Target_from_U256(u256)]
    /\ UNCHANGED <<wireA, wireB, tgtA, tgtB, tgtC, tgtOrd>>
    /\ UNCHANGED <<allocVars, sliceVars, extranonceVars, noiseVars, roleVars>>

NextTarget == TargetFromArray \/ TargetCmp \/ TargetU256RoundTrip

SpecTarget == InitCmp /\ [][NextTarget]_vars

----------------------------------------------------------------------------
(* ExtendedExtranonce to Extranonce and back *)

\* the ExtendedExtranonces that can exist: any buffer, ranges as a caller passes them
\* with the range_2.end both constructors assert
InitRoundTrip ==
    /\ \E inner \in [1 .. EXTRANONCE_LEN -> Byte], r0 \in Ranges0, r1 \in Ranges,
          r2 \in {r \in Ranges2 : r.end = EXTRANONCE_LEN} :
            alloc = ExtendedExtranonce(inner, r0, r1, r2)
    /\ result = NoCall
    /\ handed = <<>>
    /\ stdNone = FALSE
    /\ extNone = FALSE
    /\ calls = 0
    /\ overflowChecks = TRUE
    /\ created = "none"
    /\ InitSlice
    /\ InitExtranonceIdle
    /\ InitTargetIdle
    /\ InitRolesIdle
    /\ InitNoiseIdle

\* Extranonce::from(&mut extended) and ExtendedExtranonce::from_extranonce of the
\* outcome with the ranges of extended
ExtranonceRoundTrip ==
    /\ result.op = "none"
    /\ LET v   == ExtranonceFrom(alloc.inner)
           out == from_extranonce(v, alloc.range_0, alloc.range_1, alloc.range_2)
       IN  /\ alloc' = out.alloc
           /\ result' = Call("from_extranonce", out.ret, v, alloc.inner, v,
                             alloc.range_0, alloc.range_1, alloc.range_2, 0)
    /\ UNCHANGED <<handed, stdNone, extNone, calls, overflowChecks, created>>
    /\ UNCHANGED <<sliceVars, extranonceVars, targetVars, noiseVars, roleVars>>

SpecRoundTrip == InitRoundTrip /\ [][ExtranonceRoundTrip]_vars

----------------------------------------------------------------------------
(* Noise: the steps of the handshake *)

\* a role's handshake state moves to st
Step(role, st) ==
    /\ hs' = [hs EXCEPT ![role] = st]
    /\ hsPath' = [hsPath EXCEPT ![role] = Append(@, st.state)]

\* the Initiator writes message 1
InitiatorSendE ==
    /\ hs["I"].state = "Start"
    /\ Step("I", Initiator_step_0(hs["I"]))
    /\ msg1' = <<INITIATOR_E>>
    /\ UNCHANGED <<cfg, msg2, flipped, codec, recordVars, miningVars, roleVars>>

\* the Responder reads message 1
ResponderReceiveE ==
    /\ hs["R"].state = "Start"
    /\ msg1 # <<>>
    /\ Step("R", Responder_step_0(hs["R"], Head(msg1)))
    /\ msg1' = <<>>
    /\ UNCHANGED <<cfg, msg2, flipped, codec, recordVars, miningVars, roleVars>>

\* the Responder writes message 2
ResponderSendEandS ==
    /\ hs["R"].state = "ReceivedE"
    /\ LET out == Responder_step_1(hs["R"], Certificate(cfg))
       IN  /\ Step("R", out.st)
           /\ msg2' = <<out.msg>>
    /\ UNCHANGED <<cfg, msg1, flipped, codec, recordVars, miningVars, roleVars>>

\* the Initiator reads message 2
InitiatorReceiveEandS ==
    /\ hs["I"].state = "SentE"
    /\ msg2 # <<>>
    /\ Step("I", Initiator_step_1(hs["I"], Head(msg2), cfg.expected, cfg.i_now))
    /\ msg2' = <<>>
    /\ UNCHANGED <<cfg, msg1, flipped, codec, recordVars, miningVars, roleVars>>

\* a split taken from any state that is not Split
SplitOf_from_any(role) ==
    /\ hs[role].state # "Split"
    /\ Step(role, [hs[role] EXCEPT !.state = "Split"])
    /\ codec' = [codec EXCEPT ![role] = SplitCodec(hs[role], role)]
    /\ UNCHANGED <<cfg, msg1, msg2, flipped, recordVars, miningVars, roleVars>>

\* a role that has written or read message 2 splits: its NoiseCodec is produced
SplitOf(role) ==
    /\ hs[role].state = (IF role = "I" THEN "ReceivedEandS" ELSE "SentEandS")
    /\ Step(role, [hs[role] EXCEPT !.state = "Split"])
    /\ codec' = [codec EXCEPT ![role] = SplitCodec(hs[role], role)]
    /\ UNCHANGED <<cfg, msg1, msg2, flipped, recordVars, miningVars, roleVars>>

InitiatorSplit == SplitOf("I")

ResponderSplit == SplitOf("R")

\* the encodings one bit away from an ElligatorSwift encoding: another encoding of
\* the same key, or an encoding of another key
FlippedEncodings(e) ==
    {ElligatorSwift(e.point, 1 - e.enc, e.len), ElligatorSwift("x", e.enc, e.len)}

\* one bit of message 1 is flipped in transit
FlipMessage1 ==
    /\ ~cfg.reliable
    /\ flipped = "none"
    /\ msg1 # <<>>
    /\ \E e \in FlippedEncodings(Head(msg1)) : msg1' = <<e>>
    /\ flipped' = "msg1"
    /\ UNCHANGED <<cfg, hs, hsPath, msg2, codec, recordVars, miningVars, roleVars>>

\* message 2 with one bit flipped in the part named
FlippedMessage2(m) ==
    {[part |-> "msg2.e", msg |-> [m EXCEPT !.e = e]] : e \in FlippedEncodings(m.e)}
    \cup {[part |-> "msg2.s", msg |-> [m EXCEPT !.s = FlipBit(@)]],
          [part |-> "msg2.sig", msg |-> [m EXCEPT !.sig = FlipBit(@)]]}

\* one bit of message 2 is flipped in transit
FlipMessage2 ==
    /\ ~cfg.reliable
    /\ flipped = "none"
    /\ msg2 # <<>>
    /\ \E f \in FlippedMessage2(Head(msg2)) :
          /\ msg2' = <<f.msg>>
          /\ flipped' = f.part
    /\ UNCHANGED <<cfg, hs, hsPath, msg1, codec, recordVars, miningVars, roleVars>>

\* a handshake message loses its last byte in transit
Truncate ==
    /\ ~cfg.reliable
    /\ flipped = "none"
    /\ \/ /\ msg1 # <<>>
          /\ msg1' = <<[Head(msg1) EXCEPT !.len = @ - 1]>>
          /\ flipped' = "msg1.len"
          /\ UNCHANGED msg2
       \/ /\ msg2 # <<>>
          /\ msg2' = <<[Head(msg2) EXCEPT !.len = @ - 1]>>
          /\ flipped' = "msg2.len"
          /\ UNCHANGED msg1
    /\ UNCHANGED <<cfg, hs, hsPath, codec, recordVars, miningVars, roleVars>>

HandshakeStep ==
    \/ InitiatorSendE
    \/ ResponderReceiveE
    \/ ResponderSendEandS
    \/ InitiatorReceiveEandS
    \/ InitiatorSplit
    \/ ResponderSplit

InitSetting ==
    /\ InitAlloc /\ overflowChecks = FALSE
    /\ InitSlice
    /\ InitExtranonceIdle
    /\ InitTargetIdle
    /\ InitRolesIdle
    /\ \E c \in Cfgs : InitHandshake(c)
    /\ InitRecord

NextHandshake == HandshakeStep \/ FlipMessage1 \/ FlipMessage2 \/ Truncate

\* each role runs its handshake on one task that takes its next step when it can;
\* a message in flight is delivered
SpecHandshake ==
    /\ InitSetting
    /\ [][NextHandshake]_vars
    /\ WF_vars(InitiatorSendE)
    /\ WF_vars(ResponderReceiveE)
    /\ WF_vars(ResponderSendEandS)
    /\ WF_vars(InitiatorReceiveEandS)
    /\ WF_vars(InitiatorSplit)
    /\ WF_vars(ResponderSplit)

----------------------------------------------------------------------------
(* Noise: the record layer after split *)

\* a connection drops an error came back on: a failed decrypt taints it
CloseOnError_ignored(c, op) == c

\* the caller of a NoiseCodec call that failed closes the connection; a failed
\* decrypt taints it
CloseOnError(c, op) == Connection(c.tainted \/ op = "decrypt", TRUE)

\* the writer task of a role encrypts a plaintext and sends the record
Encrypt(role) ==
    /\ codec[role].exists
    /\ ~conn[role].closed
    /\ codec[role].encryptor.n < MaxEncrypts
    /\ Len(wire[SendDir(role)]) < MaxInFlight
    /\ \E pt \in Payloads(codec[role].encryptor.n) :
          LET r == NoiseCodec_encrypt(codec[role], pt)
              d == SendDir(role)
          IN  /\ codec' = [codec EXCEPT ![role] = r.self]
              /\ lastOp' = Op(role, "encrypt", r.ret, codec[role].encryptor.k,
                              codec[role].encryptor.n, r.self.encryptor.n, r.pt, r.ct)
              /\ IF r.ret = "Ok"
                 THEN /\ wire' = [wire EXCEPT ![d] = Append(@, r.ct)]
                      /\ sentLog' = [sentLog EXCEPT ![d] = Append(@, r.ct)]
                      /\ UNCHANGED conn
                 ELSE /\ conn' = [conn EXCEPT ![role] = CloseOnError(@, "encrypt")]
                      /\ UNCHANGED <<wire, sentLog>>
    /\ UNCHANGED <<delivered, meddled, handshakeVars, miningVars, roleVars>>

\* the reader task of a role takes the next record off the wire and decrypts it
Decrypt(role) ==
    /\ codec[role].exists
    /\ ~conn[role].closed
    /\ wire[RecvDir(role)] # <<>>
    /\ LET d == RecvDir(role)
           r == NoiseCodec_decrypt(codec[role], Head(wire[d]))
       IN  /\ codec' = [codec EXCEPT ![role] = r.self]
           /\ wire' = [wire EXCEPT ![d] = Tail(@)]
           /\ lastOp' = Op(role, "decrypt", r.ret, codec[role].decryptor.k,
                           codec[role].decryptor.n, r.self.decryptor.n, r.pt, r.ct)
           /\ IF r.ret = "Ok"
              THEN /\ delivered' = [delivered EXCEPT ![d] = Append(@, r.pt)]
                   /\ UNCHANGED conn
              ELSE /\ conn' = [conn EXCEPT ![role] = CloseOnError(@, "decrypt")]
                   /\ UNCHANGED delivered
    /\ UNCHANGED <<sentLog, meddled, handshakeVars, miningVars, roleVars>>

InitiatorEncrypt == Encrypt("I")

InitiatorDecrypt == Decrypt("I")

ResponderEncrypt == Encrypt("R")

ResponderDecrypt == Decrypt("R")

\* a sequence without its i-th element
Without(seq, i) == SubSeq(seq, 1, i - 1) \o SubSeq(seq, i + 1, Len(seq))

\* a sequence with its i-th element twice
Twice(seq, i) == SubSeq(seq, 1, i) \o SubSeq(seq, i, Len(seq))

\* a sequence with its i-th and i+1-th elements exchanged
Exchanged(seq, i) ==
    [j \in 1 .. Len(seq) |-> IF j = i THEN seq[i + 1] ELSE IF j = i + 1 THEN seq[i] ELSE seq[j]]

\* the wire of direction d becomes w by something other than its two ends
Meddle(d, w) ==
    /\ meddled < MaxMeddled
    /\ wire' = [wire EXCEPT ![d] = w]
    /\ meddled' = meddled + 1
    /\ UNCHANGED <<codec, conn, sentLog, delivered, lastOp, handshakeVars, miningVars, roleVars>>

\* a record is dropped in transit
Drop == \E d \in Dirs : \E i \in 1 .. Len(wire[d]) : Meddle(d, Without(wire[d], i))

\* a record is duplicated in transit
Duplicate == \E d \in Dirs : \E i \in 1 .. Len(wire[d]) : Meddle(d, Twice(wire[d], i))

\* two records are reordered in transit
Reorder == \E d \in Dirs : \E i \in 1 .. Len(wire[d]) - 1 : Meddle(d, Exchanged(wire[d], i))

\* one bit of a record is flipped in transit
Tamper ==
    \E d \in Dirs : \E i \in 1 .. Len(wire[d]) :
        Meddle(d, [wire[d] EXCEPT ![i] = FlipBit(@)])

InitCodec ==
    /\ InitAlloc /\ overflowChecks = FALSE
    /\ InitSlice
    /\ InitExtranonceIdle
    /\ InitTargetIdle
    /\ InitRolesIdle
    /\ InitHandshake(HonestCfg)
    /\ InitRecord

NextCodec ==
    \/ HandshakeStep
    \/ InitiatorEncrypt
    \/ InitiatorDecrypt
    \/ ResponderEncrypt
    \/ ResponderDecrypt
    \/ Drop
    \/ Duplicate
    \/ Reorder
    \/ Tamper

SpecCodec == InitCodec /\ [][NextCodec]_vars

----------------------------------------------------------------------------
(* Translator: main, start, and the tasks start spawns *)

TranslatorIdle ==
    UNCHANGED <<miningVars, noiseVars, mempoolVars, downstreamVars, submitVars, executorVars>>

IsComponent(i) == tasks[i].kind \in Components /\ tasks[i].state = "running"

IsInitTask(i, stage) ==
    tasks[i].kind = "init" /\ tasks[i].state = "running" /\ tasks[i].stage = stage

\* main up to its first call of start: CancellationToken::new()
TranslatorMain ==
    /\ mainPc = "main"
    /\ cancellation_token' = FALSE
    /\ starts' = 1
    /\ mainPc' = "start"
    /\ UNCHANGED <<rx_status, tasks, shutdowns>>
    /\ TranslatorIdle

\* start up to its select!: Upstream::new fails and start returns, or the init
\* task is spawned with a clone of the token start was given
Start ==
    /\ mainPc = "start"
    /\ \E ok \in BOOLEAN :
        IF ok
        THEN /\ tasks' = Append(tasks, Task("init", starts, "running", "connect"))
             /\ mainPc' = "select"
        ELSE /\ tasks' = tasks
             /\ mainPc' = "loop"
    /\ UNCHANGED <<cancellation_token, rx_status, starts, shutdowns>>
    /\ TranslatorIdle

\* the select! that ends start: the init task has finished, or the token is
\* cancelled; the init task is not aborted when start returns
StartSelect ==
    /\ mainPc = "select"
    /\ \/ \E i \in DOMAIN tasks :
            tasks[i].kind = "init" /\ tasks[i].start = starts /\ tasks[i].state = "finished"
       \/ cancellation_token
    /\ mainPc' = "loop"
    /\ UNCHANGED <<cancellation_token, rx_status, tasks, starts, shutdowns>>
    /\ TranslatorIdle

\* the init task: Upstream::connect, parse_incoming and handle_submit; a failure ends it
InitTaskConnect(i) ==
    /\ mainPc # "exit"
    /\ IsInitTask(i, "connect")
    /\ \E ok \in BOOLEAN :
        tasks' = IF ok
                 THEN Append([tasks EXCEPT ![i].stage = "extranonce"],
                             Task("upstream", tasks[i].start, "running", "none"))
                 ELSE [tasks EXCEPT ![i].state = "finished"]
    /\ UNCHANGED <<cancellation_token, rx_status, mainPc, starts, shutdowns>>
    /\ TranslatorIdle

\* the init task once the extranonce and the target have arrived: Bridge::start
\* and Downstream::accept_connections, each with a clone of the token
InitTaskBridge(i) ==
    /\ mainPc # "exit"
    /\ IsInitTask(i, "extranonce")
    /\ tasks' = [tasks EXCEPT ![i].state = "finished"]
                    \o <<Task("bridge", tasks[i].start, "running", "none"),
                         Task("downstream", tasks[i].start, "running", "none")>>
    /\ UNCHANGED <<cancellation_token, rx_status, mainPc, starts, shutdowns>>
    /\ TranslatorIdle

\* a component's task sees its token cancelled and stops
TaskCancelled(i) ==
    /\ mainPc # "exit"
    /\ IsComponent(i)
    /\ cancellation_token
    /\ tasks' = [tasks EXCEPT ![i].state = "cancelled"]
    /\ UNCHANGED <<cancellation_token, rx_status, mainPc, starts, shutdowns>>
    /\ TranslatorIdle

\* a component reports on the status channel; reporting its shutdown ends its task
TaskSends(i) ==
    /\ mainPc # "exit"
    /\ IsComponent(i)
    /\ Len(rx_status) < MaxStatuses
    /\ \E st \in {"Healthy", ShutdownOf(tasks[i].kind)} :
        /\ rx_status' = Append(rx_status, st)
        /\ tasks' = IF st = "Healthy" THEN tasks
                    ELSE [tasks EXCEPT ![i].state = "finished"]
    /\ UNCHANGED <<cancellation_token, mainPc, starts, shutdowns>>
    /\ TranslatorIdle

\* main's loop receives a status: a Downstream or Bridge shutdown ends main, an
\* Upstream shutdown cancels the token and sleeps, Healthy is logged
MainStatus ==
    /\ mainPc = "loop"
    /\ rx_status # <<>>
    /\ rx_status' = Tail(rx_status)
    /\ LET task_status == Head(rx_status)
       IN  CASE task_status \in {"DownstreamShutdown", "BridgeShutdown"} ->
                    /\ mainPc' = "exit"
                    /\ UNCHANGED <<cancellation_token, shutdowns>>
             [] task_status = "UpstreamShutdown" ->
                    /\ cancellation_token' = TRUE
                    /\ shutdowns' = shutdowns + 1
                    /\ mainPc' = "sleep"
             [] task_status = "Healthy" ->
                    UNCHANGED <<cancellation_token, shutdowns, mainPc>>
    /\ UNCHANGED <<tasks, starts>>
    /\ TranslatorIdle

\* after the sleeps of the UpstreamShutdown arm: start again, with a clone of
\* the token main created
MainReconnect ==
    /\ mainPc = "sleep"
    /\ starts < MaxStarts
    /\ starts' = starts + 1
    /\ mainPc' = "start"
    /\ UNCHANGED <<cancellation_token, rx_status, tasks, shutdowns>>
    /\ TranslatorIdle

\* ctrl-c ends main's loop
Interrupt ==
    /\ mainPc = "loop"
    /\ mainPc' = "exit"
    /\ UNCHANGED <<cancellation_token, rx_status, tasks, starts, shutdowns>>
    /\ TranslatorIdle

InitTranslatorRun ==
    /\ InitAlloc /\ overflowChecks = FALSE
    /\ InitSlice
    /\ InitExtranonceIdle
    /\ InitTargetIdle
    /\ InitNoiseIdle
    /\ InitRolesIdle

NextTranslator ==
    \/ TranslatorMain
    \/ Start
    \/ StartSelect
    \/ \E i \in DOMAIN tasks : InitTaskConnect(i)
    \/ \E i \in DOMAIN tasks : InitTaskBridge(i)
    \/ \E i \in DOMAIN tasks : TaskCancelled(i)
    \/ \E i \in DOMAIN tasks : TaskSends(i)
    \/ MainStatus
    \/ MainReconnect
    \/ Interrupt

SpecTranslator == InitTranslatorRun /\ [][NextTranslator]_vars

----------------------------------------------------------------------------
(* jd-server: update_mempool and the readers of the mempool *)

MempoolIdle ==
    UNCHANGED <<miningVars, noiseVars, translatorVars, downstreamVars, submitVars, executorVars>>

\* update_mempool up to its first await: the client is taken under the lock
UpdateMempoolCall ==
    /\ update.pc = "idle"
    /\ update.calls < MaxUpdates
    /\ update' = IF get_client(url).some
                 THEN Update("get_raw_mempool_verbose", <<>>, <<>>, "none", update.calls + 1)
                 ELSE Update("returned", <<>>, <<>>, "NoClient", update.calls + 1)
    /\ UNCHANGED <<url, mempool, readerOp>>
    /\ MempoolIdle

\* the spawned task asks the node for its mempool: an Rpc error, or the txids
UpdateMempoolRpc ==
    /\ update.pc = "get_raw_mempool_verbose"
    /\ \/ update' = [update EXCEPT !.pc = "returned", !.ret = "Rpc"]
       \/ \E ids \in NodeMempools :
            update' = [update EXCEPT !.pc = "get_raw_transaction", !.ids = ids]
    /\ UNCHANGED <<url, mempool, readerOp>>
    /\ MempoolIdle

\* the spawned task fetches the next transaction: pushed when the call is Ok,
\* skipped when it is not
UpdateMempoolFetch ==
    /\ update.pc = "get_raw_transaction"
    /\ update.ids # <<>>
    /\ \E ok \in BOOLEAN :
        update' = [update EXCEPT
                     !.ids = Tail(update.ids),
                     !.mempool_ordered = IF ok THEN Append(@, Head(update.ids)) ELSE @]
    /\ UNCHANGED <<url, mempool, readerOp>>
    /\ MempoolIdle

\* the task ends and update_mempool returns: the stored list is replaced under
\* the lock, or it is left and the error returned
UpdateMempoolReturn ==
    /\ update.pc = "get_raw_transaction"
    /\ update.ids = <<>>
    /\ LET out == update_mempool_result(mempool, update.mempool_ordered)
       IN  /\ mempool' = out.mempool
           /\ update' = [update EXCEPT !.pc = "returned", !.ret = out.ret]
    /\ UNCHANGED <<url, readerOp>>
    /\ MempoolIdle

\* the caller's loop: the result is looked at, then sleep, then the next call
UpdateMempoolLoop ==
    /\ update.pc = "returned"
    /\ update' = [update EXCEPT !.pc = "idle"]
    /\ UNCHANGED <<url, mempool, readerOp>>
    /\ MempoolIdle

\* a reader takes the lock and clones the mempool
GetTransactionList ==
    /\ readerOp' = ReaderOp("_get_transaction_list", 0, mempool, Some(mempool))
    /\ UNCHANGED <<url, mempool, update>>
    /\ MempoolIdle

\* a reader takes the lock and calls to_short_ids
ToShortIds ==
    /\ \E nonce \in Nonces :
        readerOp' = ReaderOp("to_short_ids", nonce, mempool, to_short_ids(mempool, nonce))
    /\ UNCHANGED <<url, mempool, update>>
    /\ MempoolIdle

InitMempoolRun ==
    /\ InitAlloc /\ overflowChecks = FALSE
    /\ InitSlice
    /\ InitExtranonceIdle
    /\ InitTargetIdle
    /\ InitNoiseIdle
    /\ InitTranslator
    /\ \E u \in Urls : InitMempool(u)
    /\ InitDownstream
    /\ InitExecutor

NextMempool ==
    \/ UpdateMempoolCall
    \/ UpdateMempoolRpc
    \/ UpdateMempoolFetch
    \/ UpdateMempoolReturn
    \/ UpdateMempoolLoop
    \/ GetTransactionList
    \/ ToShortIds

SpecMempool == InitMempoolRun /\ [][NextMempool]_vars

----------------------------------------------------------------------------
(* jd-server: the receive loop of a JobDeclaratorDownstream and the on_submit task *)

JdsIdle == UNCHANGED <<miningVars, noiseVars, translatorVars, mempoolVars, executorVars>>

\* the number of the next declaration
NextJob == Cardinality({i \in DOMAIN handled : handled[i] = "DeclareMiningJob"}) + 1

Count(seq, x) == Cardinality({i \in DOMAIN seq : seq[i] = x})

\* one turn of the receive loop on a frame that is no Sv2 frame: handle_result!
\* sends the status and leaves the turn, ending the loop or going on with it
ReceiveHandShake ==
    /\ status_tx' = Append(status_tx, "FramingSv2")
    /\ loopPc' \in {"ended", "recv"}
    /\ UNCHANGED <<declared_mining_job, receiver, sender, submitVars>>

\* one turn of the receive loop on an Sv2 frame: the message is handled and the
\* SendTo acted on: a response is sent, nothing is done, or the block of the
\* solution is put on the submit-solution channel; on an error the status is
\* sent, the receiver closed and the loop left
ReceiveMessage(frame) ==
    LET out == handle_message_job_declaration(declared_mining_job, frame, NextJob)
        block == get_block_hex(out.declared, Len(handled) + 1)
        arm == HandlerErrorArm(receiver)
    IN  CASE out.ret = "Respond" ->
                /\ sender' = Append(sender, out.message)
                /\ declared_mining_job' = out.declared
                /\ UNCHANGED <<receiver, loopPc, status_tx, submitVars>>
          [] out.ret = "None" ->
                /\ declared_mining_job' = out.declared
                /\ UNCHANGED <<receiver, loopPc, sender, status_tx, submitVars>>
          [] out.ret = "RelayNewMessage" ->
                /\ declared_mining_job' = block.declared
                /\ IF block.panic
                   THEN /\ loopPc' = "panicked"
                        /\ UNCHANGED <<submit_solution, sentHex>>
                   ELSE /\ loopPc' = loopPc
                        /\ submit_solution' = Append(submit_solution, block.hexdata)
                        /\ sentHex' = Append(sentHex, block.hexdata)
                /\ UNCHANGED <<receiver, sender, status_tx, submitted, onSubmitPc>>
          [] out.ret = "Err" ->
                /\ status_tx' = Append(status_tx, "Invalid message received")
                /\ loopPc' = arm.pc
                /\ receiver' = arm.receiver
                /\ UNCHANGED <<declared_mining_job, sender, submitVars>>

\* the receive loop takes the next frame of the downstream
DownstreamReceive ==
    /\ loopPc = "recv"
    /\ ~receiver.closed
    /\ Len(handled) < MaxMessages
    /\ \E frame \in Frames :
        /\ handled' = Append(handled, frame)
        /\ IF frame = "HandShake" THEN ReceiveHandShake ELSE ReceiveMessage(frame)
    /\ JdsIdle

\* the downstream goes away: its channel is closed
DownstreamDisconnects ==
    /\ ~receiver.closed
    /\ receiver' = [receiver EXCEPT !.closed = TRUE]
    /\ UNCHANGED <<declared_mining_job, loopPc, handled, sender, status_tx, submitVars>>
    /\ JdsIdle

\* recv fails on the closed channel: the status is sent and the loop left
DownstreamRecvFails ==
    /\ loopPc = "recv"
    /\ receiver.closed
    /\ status_tx' = Append(status_tx, "ChannelRecv")
    /\ loopPc' = "ended"
    /\ UNCHANGED <<declared_mining_job, receiver, handled, sender, submitVars>>
    /\ JdsIdle

\* main's loop calls on_submit: with a client it enters its loop; with none it
\* returns NoClient, and handle_result! sends the status and ends main's loop or
\* goes on with it
OnSubmitCall ==
    /\ onSubmitPc = "idle"
    /\ IF get_client(url).some
       THEN /\ onSubmitPc' = "recv"
            /\ UNCHANGED status_tx
       ELSE /\ Count(status_tx, "NoClient") < MaxStatuses
            /\ status_tx' = Append(status_tx, "NoClient")
            /\ onSubmitPc' \in {"idle", "ended"}
    /\ UNCHANGED <<declared_mining_job, receiver, loopPc, handled, sender>>
    /\ UNCHANGED <<submit_solution, sentHex, submitted>>
    /\ JdsIdle

\* on_submit receives a block hex and passes it to submit_block: on Ok it
\* returns, on an error it goes on to the next one
OnSubmitRecv ==
    /\ onSubmitPc = "recv"
    /\ submit_solution # <<>>
    /\ submit_solution' = Tail(submit_solution)
    /\ \E ok \in BOOLEAN :
        /\ submitted' = Append(submitted, [block_hex |-> Head(submit_solution), ok |-> ok])
        /\ onSubmitPc' = IF ok THEN "idle" ELSE "recv"
    /\ UNCHANGED <<downstreamVars, sentHex>>
    /\ JdsIdle

InitJds ==
    /\ InitAlloc /\ overflowChecks = FALSE
    /\ InitSlice
    /\ InitExtranonceIdle
    /\ InitTargetIdle
    /\ InitNoiseIdle
    /\ InitTranslator
    /\ \E u \in Urls : InitMempool(u)
    /\ InitDownstream
    /\ InitExecutor

NextJds ==
    \/ DownstreamReceive
    \/ DownstreamDisconnects
    \/ DownstreamRecvFails
    \/ OnSubmitCall
    \/ OnSubmitRecv

\* the on_submit task is a tokio task, scheduled again and again
SpecJds ==
    /\ InitJds
    /\ [][NextJds]_vars
    /\ WF_vars(OnSubmitCall)
    /\ WF_vars(OnSubmitRecv)

----------------------------------------------------------------------------
(* message-generator: Executor::execute *)

ExecutorIdle ==
    UNCHANGED <<miningVars, noiseVars, translatorVars, mempoolVars, downstreamVars, submitVars>>

\* what a result expects of the message received for it
Satisfies(message, res) ==
    IF res.result = "MatchMessageType" THEN message.type = res.message_type
    ELSE /\ message.subprotocol = res.subprotocol
         /\ message.type = res.message_type
         /\ \A i \in DOMAIN res.field_data :
                /\ res.field_data[i].name \in DOMAIN message.fields
                /\ message.fields[res.field_data[i].name] = res.field_data[i].value

\* execute works on the next result of the test with the message it receives:
\* the result passes, or success is set to false and the action left, or a
\* check panics
ExecuteResult ==
    /\ executor.pc = "running"
    /\ executor.results < MaxResults
    /\ \E res \in ActionResults, message \in Messages :
        LET out == IF res.result = "MatchMessageType" THEN match_message_type(message, res)
                   ELSE match_message_field(message, res)
            n == executor.results + 1
        IN  /\ executor' =
                CASE out = "ok" -> Executor("running", executor.success, n, res, message, "none")
                  [] out = "failed" -> Executor("running", FALSE, n, res, message, "none")
                  [] OTHER -> Executor("panicked", executor.success, n, res, message, out)
            /\ unsatisfied' = (unsatisfied \/ ~Satisfies(message, res))
    /\ ExecutorIdle

\* the connection is closed before the message of a result arrives
ExecuteRecvFails ==
    /\ executor.pc = "running"
    /\ executor.results < MaxResults
    /\ executor' = [executor EXCEPT !.success = FALSE, !.results = @ + 1]
    /\ unsatisfied' = unsatisfied
    /\ ExecutorIdle

\* the actions are over: execute panics when success is false, else it returns
\* and main prints TEST OK
ExecuteEnd ==
    /\ executor.pc = "running"
    /\ executor' = IF executor.success THEN [executor EXCEPT !.pc = "returned"]
                   ELSE [executor EXCEPT !.pc = "panicked", !.panic = "test failed!!!"]
    /\ unsatisfied' = unsatisfied
    /\ ExecutorIdle

InitExecutorRun ==
    /\ InitAlloc /\ overflowChecks = FALSE
    /\ InitSlice
    /\ InitExtranonceIdle
    /\ InitTargetIdle
    /\ InitNoiseIdle
    /\ InitRolesIdle

NextExecutor == ExecuteResult \/ ExecuteRecvFails \/ ExecuteEnd

SpecExecutor == InitExecutorRun /\ [][NextExecutor]_vars

----------------------------------------------------------------------------
(* Vocabulary of the properties *)

\* an Extranonce read as one big-endian integer, head the more significant half
Value(e) == e.head * (Base ^ TAIL_LEN) + e.tail

\* the buffer positions a range covers
RangeIdx(r) == {i \in 1..EXTRANONCE_LEN : r.start < i /\ i <= r.end}

\* the bytes of a buffer at the positions of a range
BytesIn(inner, r) == [i \in RangeIdx(r) |-> inner[i]]

\* the bytes of a buffer in a range, in order, as a byte string
Digits(inner, r) ==
    [k \in 1..Cardinality(RangeIdx(r)) |->
        inner[CHOOSE i \in RangeIdx(r) : Cardinality({j \in RangeIdx(r) : j <= i}) = k]]

\* every byte of bs is u8::MAX (true of the empty slice)
AllMax(bs) == \A i \in 1..Len(bs) : bs[i] = U8_MAX

\* every byte of the range is u8::MAX (true of a range that covers no byte)
AllMaxIn(inner, r) == \A i \in RangeIdx(r) : inner[i] = U8_MAX

\* number of bytes a range covers (Range::len)
RangeLen(r) == Cardinality(RangeIdx(r))

\* the partition invariant of the data model
PartitionInvariant(r0, r1, r2) ==
    /\ r0.start = 0
    /\ r0.end = r1.start
    /\ r1.end = r2.start
    /\ r2.end = EXTRANONCE_LEN

\* the three ranges tile the buffer in order: the partition invariant, with no
\* range inverted
WellFormedPartition(r0, r1, r2) ==
    /\ PartitionInvariant(r0, r1, r2)
    /\ r1.start <= r1.end
    /\ r2.start <= r2.end

\* the step is a call of op on the allocator
IsCall(op) == calls' = calls + 1 /\ result'.op = op

IsStandard(i) == handed[i].op = "next_standard"
IsExtended(i) == handed[i].op = "next_extended"

\* the search space prefix of a handed out value: its bytes in range_0 and range_1
Prefix(e) ==
    <<BytesIn(ExtranonceBytes(e), alloc.range_0), BytesIn(ExtranonceBytes(e), alloc.range_1)>>

----------------------------------------------------------------------------
(* C1 *)

\* C1: the search spaces handed out by one allocator are pairwise disjoint: no two
\* returned values are equal, and no value returned by next_standard carries in
\* range_0 and range_1 the same bytes as a value returned by next_extended.
C1_SearchSpacesDisjoint ==
    /\ \A i, j \in 1..Len(handed) : i # j => handed[i].value # handed[j].value
    /\ \A i, j \in 1..Len(handed) :
          IsStandard(i) /\ IsExtended(j) => Prefix(handed[i].value) # Prefix(handed[j].value)

----------------------------------------------------------------------------
(* C2 *)

\* C2: the values returned by successive successful next_standard calls, read as
\* big-endian integers, are strictly increasing, so none is returned twice.
C2_StandardStrictlyIncreasing ==
    \A i, j \in 1..Len(handed) :
        i < j /\ IsStandard(i) /\ IsStandard(j)
            => Value(handed[i].value) < Value(handed[j].value)

\* next_standard has succeeded at least twice and has then reported exhaustion
C2_Witness ==
    /\ stdNone
    /\ \E i, j \in 1..Len(handed) : i < j /\ IsStandard(i) /\ IsStandard(j)

----------------------------------------------------------------------------
(* C3 *)

\* C3: for any interleaving of next_standard and next_extended, each returned value
\* is strictly greater than every value returned before it.
C3_AllocationsStrictlyIncreasing ==
    \A i, j \in 1..Len(handed) :
        i < j => Value(handed[i].value) < Value(handed[j].value)

\* a next_standard value, then a next_extended value, then a next_standard value
C3_Witness ==
    \E i \in 1..Len(handed) :
        /\ i + 2 <= Len(handed)
        /\ IsStandard(i) /\ IsExtended(i + 1) /\ IsStandard(i + 2)

----------------------------------------------------------------------------
(* C4 *)

\* C4: exhaustion is sticky: once next_standard has returned None, range_2 is all
\* u8::MAX and every later next_standard returns None and leaves it so; once
\* next_extended has returned None with range_1 at maximum, every later
\* next_extended returns None and range_1 stays all u8::MAX.
C4_ExhaustionSticky ==
    [][/\ stdNone' => AllMaxIn(alloc'.inner, alloc'.range_2)
       /\ stdNone /\ IsCall("next_standard") => result'.ret = "None"
       /\ extNone' => AllMaxIn(alloc'.inner, alloc'.range_1)
       /\ extNone /\ IsCall("next_extended") => result'.ret = "None"]_vars

\* C4 on the allocators whose ranges tile the buffer in order
C4_StickyOnWellFormedPartition ==
    [][WellFormedPartition(alloc'.range_0, alloc'.range_1, alloc'.range_2) =>
        /\ stdNone' => AllMaxIn(alloc'.inner, alloc'.range_2)
        /\ stdNone /\ IsCall("next_standard") => result'.ret = "None"
        /\ extNone' => AllMaxIn(alloc'.inner, alloc'.range_1)
        /\ extNone /\ IsCall("next_extended") => result'.ret = "None"]_vars

----------------------------------------------------------------------------
(* C5 *)

\* C5: increment_bytes_be on a slice whose bytes are all u8::MAX returns Err and
\* leaves every byte of the slice at u8::MAX.
C5_MaxStaysMax ==
    incResult # "none" /\ AllMax(sliceBefore) =>
        /\ incResult = "Err"
        /\ Len(slice) = Len(sliceBefore)
        /\ AllMax(slice)

\* the call was made on a slice of several bytes, all u8::MAX
C5_Witness ==
    /\ incResult = "Err"
    /\ Len(sliceBefore) >= 2
    /\ AllMax(sliceBefore)

----------------------------------------------------------------------------
(* C6 *)

\* C6: from_upstream_extranonce(v, range_0, range_1, range_2) returns None if and
\* only if some byte of v inside range_1 or range_2 is nonzero; when it returns
\* Some, the buffer equals v and every byte in range_1 and range_2 is zero.
\* (Stated of the calls that return; a call that panics is not held against it.)
C6_FromUpstreamRejectsNonzero ==
    result.op = "from_upstream_extranonce" /\ result.ret # "panic" =>
        LET bytes == ExtranonceBytes(result.v)
            reserved == RangeIdx(result.range_1) \cup RangeIdx(result.range_2)
        IN  /\ result.ret = "None" <=> \E i \in reserved : bytes[i] # 0
            /\ result.ret = "Some" =>
                  /\ alloc.inner = bytes
                  /\ \A i \in reserved : alloc.inner[i] = 0

\* C6 on the ranges that tile the buffer in order
C6_OnWellFormedPartition ==
    /\ result.op = "from_upstream_extranonce"
    /\ WellFormedPartition(result.range_0, result.range_1, result.range_2)
    => C6_FromUpstreamRejectsNonzero

----------------------------------------------------------------------------
(* C7 *)

\* C7: every allocator obtained through new or from_upstream_extranonce and any
\* next_standard/next_extended calls satisfies the partition invariant, and a
\* constructor called with ranges that violate it yields no allocator.
C7_PartitionInvariantHolds ==
    /\ alloc.exists => PartitionInvariant(alloc.range_0, alloc.range_1, alloc.range_2)
    /\ /\ result.op \in {"new", "from_upstream_extranonce"}
       /\ ~PartitionInvariant(result.range_0, result.range_1, result.range_2)
       => result.ret # "Some" /\ ~alloc.exists

----------------------------------------------------------------------------
(* C8 *)

\* C8: new on a valid partition returns an allocator whose bytes are all zero and
\* whose ranges are the given ones; on ranges violating any of the four partition
\* conditions it fails and returns no allocator.
C8_NewChecksPartition ==
    result.op = "new" =>
        IF PartitionInvariant(result.range_0, result.range_1, result.range_2)
        THEN /\ result.ret = "Some"
             /\ alloc.exists
             /\ alloc.inner = [i \in 1..EXTRANONCE_LEN |-> 0]
             /\ alloc.range_0 = result.range_0
             /\ alloc.range_1 = result.range_1
             /\ alloc.range_2 = result.range_2
        ELSE result.ret = "panic" /\ ~alloc.exists

\* new has returned an allocator with three nonempty ranges
C8_Witness ==
    /\ result.op = "new"
    /\ alloc.exists
    /\ RangeLen(alloc.range_0) > 0 /\ RangeLen(alloc.range_1) > 0 /\ RangeLen(alloc.range_2) > 0

----------------------------------------------------------------------------
(* C9 *)

\* C9: next_extended(required_len) with required_len greater than the length of
\* range_2 returns None and leaves the buffer unchanged.
\* (Stated of the calls that return; a call that panics is not held against it.)
C9_TooLongRequestRejected ==
    /\ result.op = "next_extended"
    /\ result.required_len > RangeLen(alloc.range_2)
    /\ result.ret # "panic"
    => /\ result.ret = "None"
       /\ alloc.inner = result.before

\* C9 on the allocators whose range_2 is not inverted
C9_OnOrderedRange2 ==
    alloc.exists /\ alloc.range_2.start <= alloc.range_2.end => C9_TooLongRequestRejected

----------------------------------------------------------------------------
(* C10 *)

\* C10: next_extended(required_len) with required_len <= len(range_2) returns Some
\* exactly when range_1 is not all u8::MAX (an empty range_1 counts as exhausted);
\* the returned bytes are the previous buffer with range_1 incremented by one as a
\* big-endian integer and the bytes of range_0 and range_2 unchanged.
\* (Stated of the calls that return; a call that panics is not held against it.)
C10_NextExtendedIncrementsRange1 ==
    /\ result.op = "next_extended"
    /\ result.required_len <= RangeLen(alloc.range_2)
    /\ result.ret # "panic"
    =>  /\ result.ret = "Some" <=> ~AllMaxIn(result.before, alloc.range_1)
        /\ result.ret = "Some" =>
              LET out == ExtranonceBytes(result.value)
              IN  /\ FromBeBytes(Digits(out, alloc.range_1))
                        = FromBeBytes(Digits(result.before, alloc.range_1)) + 1
                  /\ BytesIn(out, alloc.range_0) = BytesIn(result.before, alloc.range_0)
                  /\ BytesIn(out, alloc.range_2) = BytesIn(result.before, alloc.range_2)

\* C10 on the allocators whose ranges tile the buffer in order
C10_OnWellFormedPartition ==
    /\ alloc.exists
    /\ WellFormedPartition(alloc.range_0, alloc.range_1, alloc.range_2)
    => C10_NextExtendedIncrementsRange1

----------------------------------------------------------------------------
(* C11 *)

\* C11: next_standard returns Some(v) exactly when range_2 is not all u8::MAX, and
\* then v is the whole previous buffer, read as a big-endian integer, plus one (the
\* result of Extranonce::next on the buffer), with the bytes of range_0 and range_1
\* unchanged; it returns None exactly when every byte of range_2 is u8::MAX (an
\* empty range_2 included).
\* (Stated of the calls that return; a call that panics is not held against it.)
C11_NextStandardIncrementsBuffer ==
    result.op = "next_standard" /\ result.ret # "panic" =>
        /\ result.ret = "Some" <=> ~AllMaxIn(result.before, alloc.range_2)
        /\ result.ret = "None" <=> AllMaxIn(result.before, alloc.range_2)
        /\ result.ret = "Some" =>
              LET out == ExtranonceBytes(result.value)
                  expected == Extranonce_next(ExtranonceFrom(result.before))
              IN  /\ FromBeBytes(out) = FromBeBytes(result.before) + 1
                  /\ expected.ret = "Some"
                  /\ result.value = Extranonce_from_B032(expected.b032)
                  /\ BytesIn(out, alloc.range_0) = BytesIn(result.before, alloc.range_0)
                  /\ BytesIn(out, alloc.range_1) = BytesIn(result.before, alloc.range_1)

\* C11 on the allocators whose ranges tile the buffer in order
C11_OnWellFormedPartition ==
    /\ alloc.exists
    /\ WellFormedPartition(alloc.range_0, alloc.range_1, alloc.range_2)
    => C11_NextStandardIncrementsBuffer

\* next_standard has carried out of the last byte of a range_2 of several bytes,
\* on an allocator whose ranges tile the buffer in order
C11_CarryOnWellFormedPartition ==
    /\ result.op = "next_standard" /\ result.ret = "Some"
    /\ WellFormedPartition(alloc.range_0, alloc.range_1, alloc.range_2)
    /\ RangeLen(alloc.range_2) >= 2
    /\ result.before[EXTRANONCE_LEN] = U8_MAX

----------------------------------------------------------------------------
(* C12 *)

\* the range_1, range_2 a downstream may pass: the pairs that partition the
\* upstream's range r2
SplitsOf(r2) ==
    {<<Range(r2.start, k), Range(k, r2.end)>> : k \in r2.start..r2.end}

\* from_upstream_extranonce accepts v from a downstream of the allocator, for every
\* split of the allocator's range_2
AcceptedDownstream(v) ==
    \A d \in SplitsOf(alloc.range_2) :
        from_upstream_extranonce(v, Range(0, alloc.range_1.end), d[1], d[2]).ret = "Some"

\* C12: chain rule: every value returned by next_extended, after any earlier
\* next_standard/next_extended calls, is accepted by from_upstream_extranonce when
\* the downstream passes range_0 = 0..range_1.end and a range_1, range_2 that
\* partition the upstream's range_2: every byte of the upstream's range_2 is zero
\* in every value handed to an extended downstream.
C12_ChainRule ==
    \A i \in 1..Len(handed) :
        IsExtended(i) =>
            /\ AcceptedDownstream(handed[i].value)
            /\ \A k \in RangeIdx(alloc.range_2) : ExtranonceBytes(handed[i].value)[k] = 0

\* C12 on the allocators returned by new whose ranges tile the buffer in order;
\* it fails there as well: next_standard then next_extended hands to the extended
\* downstream a value whose range_2 bytes are not zero
C12_OnNewWellFormedPartition ==
    /\ created = "new"
    /\ WellFormedPartition(alloc.range_0, alloc.range_1, alloc.range_2)
    => C12_ChainRule

\* C12 on the allocators whose ranges tile the buffer in order, while
\* next_standard has not returned a value
C12_BeforeAnyStandard ==
    /\ alloc.exists
    /\ WellFormedPartition(alloc.range_0, alloc.range_1, alloc.range_2)
    /\ \A i \in 1..Len(handed) : IsExtended(i)
    => C12_ChainRule

----------------------------------------------------------------------------
(* C13 *)

\* the values returned by next_extended, in order
ExtendedHanded == SelectSeq(handed, LAMBDA h : h.op = "next_extended")

\* range_1 of a returned value, read as a big-endian integer
Range1Value(e) == FromBeBytes(Digits(ExtranonceBytes(e), alloc.range_1))

\* C13: on an allocator created by new, the (i+1)-th successful next_extended call
\* (i = 0, 1, 2, ...) returns an extranonce whose range_1, read as a big-endian
\* integer, equals i.
C13_IthDownstreamGetsI ==
    created = "new" =>
        \A i \in 0..Len(ExtendedHanded) - 1 :
            Range1Value(ExtendedHanded[i + 1].value) = i

\* what the code does: the (i+1)-th successful next_extended call returns i + 1
C13_IthDownstreamGetsIPlusOne ==
    created = "new" =>
        \A i \in 0..Len(ExtendedHanded) - 1 :
            Range1Value(ExtendedHanded[i + 1].value) = i + 1

----------------------------------------------------------------------------
(* C14 *)

\* C14: Extranonce::next treats (head, tail) as one big-endian counter: each call
\* adds exactly one to the whole value, advancing the tail and advancing the head
\* by one exactly when the tail wraps from its maximum to 0, and the returned B032
\* encodes the value after the increment; so n calls add n, and n calls from a tail
\* of MAX - k with n > k give head + 1 and tail n - k - 1 (head 5, tail MAX - 10,
\* n = 100 in the source's test: head 6, tail 89).
C14_NextAddsOne ==
    /\ nextResult.ret = "Some" =>
          /\ Value(nextResult.after) = Value(nextResult.before) + 1
          /\ nextResult.after.tail = (nextResult.before.tail + 1) % (TAIL_MAX + 1)
          /\ nextResult.after.head =
                IF nextResult.before.tail = TAIL_MAX THEN nextResult.before.head + 1
                ELSE nextResult.before.head
          /\ extranonce = nextResult.after
          /\ FromLeBytes(nextResult.b032) = Value(nextResult.after)
          /\ Len(nextResult.b032) = EXTRANONCE_LEN
    /\ nextResult.ret # "panic" => Value(extranonce) = Value(nextStart) + nextCalls
    /\ \A k \in 0..TAIL_MAX :
          /\ nextResult.ret = "Some"
          /\ nextStart.tail = TAIL_MAX - k
          /\ nextCalls > k
          => /\ extranonce.head = nextStart.head + 1
             /\ extranonce.tail = nextCalls - k - 1

\* several calls of next, the tail wrapping at the second and advancing after it
C14_Witness ==
    /\ nextResult.ret = "Some"
    /\ nextCalls >= 3
    /\ nextStart.tail = TAIL_MAX - 1
    /\ nextStart.head > 0

----------------------------------------------------------------------------
(* C15 *)

\* head and tail both at their maximum
MaxExtranonce == Extranonce(HEAD_MAX, TAIL_MAX)

\* C15: Extranonce::next called with head and tail both at their maximum fails and
\* reports exhaustion to the caller instead of wrapping: the call returns an error
\* the caller can handle, the extranonce is left at its maximum and no value is
\* returned.
C15_ExhaustionReported ==
    nextResult.ret # "none" /\ nextResult.before = MaxExtranonce =>
        /\ nextResult.ret = "Err"
        /\ extranonce = MaxExtranonce
        /\ nextResult.b032 = <<>>

\* the part of C15 the code keeps: at the maximum next does not wrap, leaves the
\* extranonce at its maximum and returns no value
C15_NoWrapAtMaximum ==
    nextResult.ret # "none" /\ nextResult.before = MaxExtranonce =>
        /\ nextResult.ret # "Some"
        /\ extranonce = MaxExtranonce
        /\ nextResult.b032 = <<>>

----------------------------------------------------------------------------
(* C16 *)

\* (head, tail) of a is before (head, tail) of b in the lexicographic order
LexLess(a, b) == a.head < b.head \/ (a.head = b.head /\ a.tail < b.tail)

\* C16: Target comparison is the lexicographic order on (head, tail): A < B iff
\* A.head < B.head or (A.head = B.head and A.tail < B.tail), A = B iff both halves
\* are equal, and the relation is a total order (antisymmetric, transitive, every
\* pair comparable); e.g. {0,0} < {0,1} < {1,0}.
C16_TargetOrderLexicographic ==
    tgtOrd # NoOrd =>
        /\ \A p, q \in TargetNames :
              /\ tgtOrd[<<p, q>>] \in {"Less", "Equal", "Greater"}
              /\ tgtOrd[<<p, q>>] = "Less" <=> LexLess(TargetOf(p), TargetOf(q))
              /\ tgtOrd[<<p, q>>] = "Equal" <=>
                    /\ TargetOf(p).head = TargetOf(q).head
                    /\ TargetOf(p).tail = TargetOf(q).tail
              /\ tgtOrd[<<p, q>>] = "Equal" <=> TargetOf(p) = TargetOf(q)
              /\ tgtOrd[<<p, q>>] = "Less" <=> tgtOrd[<<q, p>>] = "Greater"
        /\ \A p, q, r \in TargetNames :
              tgtOrd[<<p, q>>] = "Less" /\ tgtOrd[<<q, r>>] = "Less"
                  => tgtOrd[<<p, r>>] = "Less"
        /\ tgtA = Target(0, 0) /\ tgtB = Target(0, 1) /\ tgtC = Target(1, 0)
              => tgtOrd[<<"A", "B">>] = "Less" /\ tgtOrd[<<"B", "C">>] = "Less"

\* the three Targets of the example have been compared
C16_Witness ==
    /\ tgtOrd # NoOrd
    /\ tgtA = Target(0, 0) /\ tgtB = Target(0, 1) /\ tgtC = Target(1, 0)

----------------------------------------------------------------------------
(* C17 *)

\* C17: for any two wire arrays a and b, Target::from(a) < Target::from(b) if and
\* only if the unsigned integer a encodes in little-endian is less than the one b
\* encodes: the Target order agrees with the integer order of the wire form.
C17_TargetOrderIsIntegerOrder ==
    tgtOrd # NoOrd =>
        (tgtOrd[<<"A", "B">>] = "Less" <=> FromLeBytes(wireA) < FromLeBytes(wireB))

----------------------------------------------------------------------------
(* C18 *)

\* C18: Target wire round trip: converting a Target to its U256 wire form and back
\* with Target::from yields a Target equal to it.
C18_TargetU256RoundTrip ==
    tgtTrip # NoTrip =>
        /\ Len(tgtTrip.u256) = EXTRANONCE_LEN
        /\ tgtTrip.back = tgtA

\* a Target with two different nonzero halves has made the round trip
C18_Witness ==
    /\ tgtTrip # NoTrip
    /\ tgtA.head = 1
    /\ tgtA.tail = TAIL_MAX

----------------------------------------------------------------------------
(* C19 *)

\* C19: Extranonce wire round trips: for every Extranonce e,
\* Extranonce::from(U256::from(e)) = e and Extranonce::from(B032::from(e)) = e.
C19_ExtranonceRoundTrips ==
    conv.op \in {"U256", "B032"} =>
        /\ Len(conv.bytes) = EXTRANONCE_LEN
        /\ conv.back = conv.from

\* an Extranonce with two different nonzero halves has made the round trip
\* through B032
C19_Witness ==
    /\ conv.op = "B032"
    /\ conv.from.head = 1
    /\ conv.from.tail = TAIL_MAX

----------------------------------------------------------------------------
(* C20 *)

\* the little-endian encoding of the one integer head * 2^128 + tail
WireOf(e) == ToLeBytes(Value(e), EXTRANONCE_LEN)

\* C20: every conversion of an Extranonce to its wire bytes (into B032, into U256,
\* into Vec<u8>, and the B032 returned by next) yields the little-endian encoding
\* of the single integer head * 2^128 + tail, so all wire conversions of the same
\* Extranonce produce the same bytes.
C20_WireIsLittleEndianOfWhole ==
    /\ conv.op # "none" => conv.bytes = WireOf(conv.from)
    /\ nextResult.ret = "Some" => nextResult.b032 = WireOf(nextResult.after)

\* the part of C20 the code keeps: the B032 conversion and the B032 returned by next
C20_B032IsLittleEndianOfWhole ==
    /\ conv.op = "B032" => conv.bytes = WireOf(conv.from)
    /\ nextResult.ret = "Some" => nextResult.b032 = WireOf(nextResult.after)

----------------------------------------------------------------------------
(* Vocabulary of the noise properties *)

\* this step is a call of op by role that returned Ok
CalledOk(role, op) ==
    /\ lastOp' # lastOp
    /\ lastOp'.role = role /\ lastOp'.op = op /\ lastOp'.ret = "Ok"

\* every record sealed on this connection, in both directions
AllSent == sentLog["IR"] \o sentLog["RI"]

\* no two records were sealed under the same key and nonce
NoNonceReuse ==
    \A i, j \in 1 .. Len(AllSent) :
        i # j => <<AllSent[i].k, AllSent[i].n>> # <<AllSent[j].k, AllSent[j].n>>

----------------------------------------------------------------------------
(* C21 *)

\* C21: in each direction of a NoiseCodec the nonce counter is 0 when the codec is
\* produced at split, goes up by exactly one on each successful encrypt (the
\* encryptor's) or decrypt (the decryptor's) and changes at no other step, and no
\* (key, nonce) pair seals two records.
C21_NonceCounters ==
    [][\A role \in Roles :
          /\ (~codec[role].exists /\ codec'[role].exists)
                => /\ codec'[role].encryptor.n = 0
                   /\ codec'[role].decryptor.n = 0
          /\ codec[role].exists
                => /\ codec'[role].encryptor.n =
                         codec[role].encryptor.n + (IF CalledOk(role, "encrypt") THEN 1 ELSE 0)
                   /\ codec'[role].decryptor.n =
                         codec[role].decryptor.n + (IF CalledOk(role, "decrypt") THEN 1 ELSE 0)
                   /\ codec'[role].encryptor.k = codec[role].encryptor.k
                   /\ codec'[role].decryptor.k = codec[role].decryptor.k
          /\ NoNonceReuse']_vars

\* a role has sealed two records and opened one
C21_Witness ==
    \E role \in Roles :
        /\ codec[role].encryptor.n = 2
        /\ codec[role].decryptor.n = 1
        /\ Len(sentLog[SendDir(role)]) = 2
        /\ Len(delivered[RecvDir(role)]) = 1

----------------------------------------------------------------------------
(* C22 *)

\* the record the sender of the direction role reads from sealed at counter n
SealedAt(role, n) == sentLog[RecvDir(role)][n + 1]

\* C22: an encrypt at counter n returns a ciphertext exactly 16 bytes longer than the
\* plaintext and leaves the counter at n + 1; a decrypt at counter n of the record
\* sealed under the same key at counter n returns the original plaintext and
\* leaves the counter at n + 1.
C22_AeadRoundTrip ==
    /\ (lastOp.op = "encrypt" /\ lastOp.ret = "Ok")
          => /\ lastOp.ct.len = Len(lastOp.pt) + 16
             /\ lastOp.ct.k = lastOp.k /\ lastOp.ct.n = lastOp.n
             /\ lastOp.after = lastOp.n + 1
    /\ (/\ lastOp.op = "decrypt"
        /\ lastOp.n < Len(sentLog[RecvDir(lastOp.role)])
        /\ lastOp.ct = SealedAt(lastOp.role, lastOp.n)
        /\ lastOp.ct.k = lastOp.k)
          => /\ lastOp.ret = "Ok"
             /\ lastOp.pt = SealedAt(lastOp.role, lastOp.n).pt
             /\ Len(lastOp.pt) + 16 = lastOp.ct.len
             /\ lastOp.after = lastOp.n + 1

\* a record of two bytes sealed at counter 1 has been opened at counter 1
C22_Witness ==
    /\ lastOp.op = "decrypt" /\ lastOp.ret = "Ok"
    /\ lastOp.n = 1
    /\ lastOp.ct = SealedAt(lastOp.role, 1)
    /\ Len(lastOp.pt) = 2 /\ lastOp.ct.len = 18

----------------------------------------------------------------------------
(* C23 *)

\* the plaintexts of a sequence of sealed records
PlaintextsOf(log) == [i \in 1 .. Len(log) |-> log[i].pt]

\* seq a is the beginning of seq b
IsPrefix(a, b) == Len(a) <= Len(b) /\ \A i \in 1 .. Len(a) : a[i] = b[i]

\* the last call was a decrypt of the record that was next in sequence
InSequence ==
    /\ lastOp.n < Len(sentLog[RecvDir(lastOp.role)])
    /\ lastOp.ct = SealedAt(lastOp.role, lastOp.n)

\* C23: in each direction the plaintexts delivered are, in order and without a gap,
\* the first plaintexts the sender sealed; a decrypt of a record that is not the next
\* in sequence (one after a dropped record, a duplicate, a record overtaking another)
\* fails.
C23_InOrderDelivery ==
    /\ \A d \in Dirs : IsPrefix(delivered[d], PlaintextsOf(sentLog[d]))
    /\ (lastOp.op = "decrypt" /\ ~InSequence) => lastOp.ret = aes_gcm_Error

\* an unmodified record reached the reader out of sequence after others were
\* delivered, and its decrypt failed
C23_Witness ==
    /\ lastOp.op = "decrypt" /\ lastOp.ret = aes_gcm_Error
    /\ lastOp.ct.intact
    /\ lastOp.ct.n # lastOp.n
    /\ delivered[RecvDir(lastOp.role)] # <<>>

----------------------------------------------------------------------------
(* C24 *)

\* this step is a call by role
Called(role) == lastOp' # lastOp /\ lastOp'.role = role

\* C24: a decrypt that fails on a tag mismatch returns the error of the AEAD
\* (aes_gcm::Error, the specification's DecryptAuth), taints the codec's connection
\* and closes it; on a tainted connection nothing is retried, decrypted or delivered
\* and no state of its codec changes.
C24_DecryptFailureTerminal ==
    [][/\ (/\ lastOp' # lastOp
           /\ lastOp'.op = "decrypt"
           /\ lastOp'.n < NONCE_MAX
           /\ ~AeadOpens(lastOp'.k, lastOp'.n, <<>>, lastOp'.ct))
             => /\ lastOp'.ret = aes_gcm_Error
                /\ conn'[lastOp'.role].tainted
                /\ conn'[lastOp'.role].closed
       /\ \A role \in Roles :
             conn[role].tainted
                => /\ ~Called(role)
                   /\ conn'[role] = conn[role]
                   /\ codec'[role] = codec[role]
                   /\ delivered'[RecvDir(role)] = delivered[RecvDir(role)]]_vars

\* a record with a flipped bit failed to open, and the record behind it stays on the
\* wire unread
C24_Witness ==
    /\ lastOp.op = "decrypt" /\ lastOp.ret = aes_gcm_Error
    /\ ~lastOp.ct.intact
    /\ conn[lastOp.role].tainted /\ conn[lastOp.role].closed
    /\ wire[RecvDir(lastOp.role)] # <<>>
    /\ Head(wire[RecvDir(lastOp.role)]).intact

----------------------------------------------------------------------------
(* C25 *)

\* C25: a call on a CipherState whose counter is at its maximum is refused with a
\* CipherExhausted error in the return value and leaves the counter where it is.
\* Violated: Result<(), aes_gcm::Error> has one error value, the AEAD's.
C25_ExhaustionReported ==
    (lastOp.op # "none" /\ lastOp.n = NONCE_MAX)
        => /\ lastOp.ret = "CipherExhausted"
           /\ lastOp.after = NONCE_MAX

\* C25, the part that holds: at its maximum the counter refuses, seals and opens
\* nothing and stays at the maximum; no call ever lowers a counter.
C25_RefusesAndNeverWraps ==
    /\ (lastOp.op # "none" /\ lastOp.n = NONCE_MAX)
          => /\ lastOp.ret = aes_gcm_Error
             /\ lastOp.after = NONCE_MAX
             /\ lastOp.op = "encrypt" => lastOp.ct = NoCiphertext
             /\ lastOp.op = "decrypt" => lastOp.pt = <<>>
    /\ lastOp.after >= lastOp.n
    /\ \A i \in 1 .. Len(AllSent) : AllSent[i].n < NONCE_MAX

----------------------------------------------------------------------------
(* C30 *)

\* what a role's codec and its two directions come to when the writer's encrypts and
\* the reader's decrypts run one after the other: the i-th ciphertext is the i-th
\* plaintext sealed under the encryptor's key at counter i - 1, the plaintexts
\* delivered are the first ones the peer sealed, and each counter is the number of
\* its own direction's successful calls
AsInSequence(role) ==
    LET out == sentLog[SendDir(role)]
        in  == delivered[RecvDir(role)]
    IN  /\ codec[role].encryptor.n = Len(out)
        /\ codec[role].decryptor.n = Len(in)
        /\ \A i \in 1 .. Len(out) :
              out[i] = AeadEncrypt(codec[role].encryptor.k, i - 1, <<>>, out[i].pt,
                                   Len(out[i].pt))
        /\ IsPrefix(in, PlaintextsOf(sentLog[RecvDir(role)]))

\* C30: an encrypt changes nothing of the decryptor and a decrypt nothing of the
\* encryptor, and after any interleaving of a role's encrypts and decrypts the
\* ciphertexts produced, the plaintexts delivered and the counters are those of the
\* two directions run one after the other.
C30_DirectionsIndependent ==
    [][\A role \in Roles :
          /\ (Called(role) /\ lastOp'.op = "encrypt")
                => /\ codec'[role].decryptor = codec[role].decryptor
                   /\ delivered'[RecvDir(role)] = delivered[RecvDir(role)]
          /\ (Called(role) /\ lastOp'.op = "decrypt")
                => /\ codec'[role].encryptor = codec[role].encryptor
                   /\ sentLog'[SendDir(role)] = sentLog[SendDir(role)]
          /\ codec'[role].exists => AsInSequence(role)']_vars

\* a role that has opened a record seals its second while both of its own are
\* still in flight
C30_Witness ==
    /\ lastOp.op = "encrypt" /\ lastOp.ret = "Ok" /\ lastOp.n = 1
    /\ codec[lastOp.role].decryptor.n = 1
    /\ Len(sentLog[RecvDir(lastOp.role)]) = 1
    /\ Len(wire[SendDir(lastOp.role)]) = 2

----------------------------------------------------------------------------
(* C26 *)

\* the states of a role's handshake in their order
PathOf(role) ==
    IF role = "I" THEN <<"Start", "SentE", "ReceivedEandS", "Split">>
    ELSE <<"Start", "ReceivedE", "SentEandS", "Split">>

\* the states a role has been in are the first states of its order, or the first
\* states short of Split followed by Failed
OnPath(role) ==
    LET p == hsPath[role]
        n == Len(p)
    IN  \/ IsPrefix(p, PathOf(role))
        \/ /\ p[n] = "Failed"
           /\ n - 1 < Len(PathOf(role))
           /\ IsPrefix(SubSeq(p, 1, n - 1), PathOf(role))

\* C26: each role goes through its states in the listed order without skipping or
\* repeating one; a failure moves it to Failed, and only a failure does; nothing
\* changes a role that is in Failed or in Split; a role has a NoiseCodec exactly
\* when it is in Split.
C26_HandshakeStateMachine ==
    [][\A role \in Roles :
          /\ OnPath(role)'
          /\ hs'[role].state = hsPath'[role][Len(hsPath'[role])]
          /\ hs'[role].state = "Failed" <=> hs'[role].error # "none"
          /\ hs[role].state \in {"Failed", "Split"}
                => hs'[role] = hs[role] /\ hsPath'[role] = hsPath[role]
          /\ codec'[role].exists <=> hs'[role].state = "Split"]_vars

\* the Initiator failed on message 2 after the Responder had split
C26_Witness ==
    /\ hsPath["I"] = <<"Start", "SentE", "Failed">>
    /\ hsPath["R"] = <<"Start", "ReceivedE", "SentEandS", "Split">>
    /\ ~codec["I"].exists /\ codec["R"].exists

----------------------------------------------------------------------------
(* C27 *)

\* a reliable channel, the Initiator given the authority key the certificate is
\* signed with, its clock inside the certificate's window
Honest == cfg.reliable /\ cfg.expected = AUTHORITY /\ InWindow(cfg)

\* both roles in Split, each one's encryptor key the other's decryptor key, all four
\* counters 0
BothSplitMatching ==
    /\ hs["I"].state = "Split" /\ hs["R"].state = "Split"
    /\ codec["I"].exists /\ codec["R"].exists
    /\ codec["I"].encryptor.k = codec["R"].decryptor.k
    /\ codec["I"].decryptor.k = codec["R"].encryptor.k
    /\ \A role \in Roles : codec[role].encryptor.n = 0 /\ codec[role].decryptor.n = 0

\* C27: over a reliable channel, with matching authority keys and the current time in
\* the certificate's window, both roles eventually reach Split with swapped matching
\* keys and all four counters at 0.
C27_HonestHandshakeSplits == Honest ~> BothSplitMatching

\* an honest handshake has ended in two matching codecs
C27_Witness == Honest /\ BothSplitMatching /\ codec["I"].encryptor.k # codec["I"].decryptor.k

----------------------------------------------------------------------------
(* C28 *)

\* one bit of message 2 was flipped in transit
Message2Flipped == flipped \in {"msg2.e", "msg2.s", "msg2.sig"}

\* C28: when a bit of message 2 (of the Responder's ephemeral key, of the sealed
\* static key or of the sealed signature payload) is flipped in transit, the Initiator
\* never accepts it and never splits, and once it has read the message it is in
\* Failed.
C28_FlippedMessage2Fails ==
    Message2Flipped
        => /\ hs["I"].state \notin {"ReceivedEandS", "Split"}
           /\ ~codec["I"].exists
           /\ msg2 = <<>> => hs["I"].state = "Failed"

\* the Responder's ephemeral key arrived as another encoding of the same key and the
\* Initiator failed on it
C28_Witness ==
    /\ flipped = "msg2.e"
    /\ hs["I"].state = "Failed" /\ hs["I"].error = "DecryptAuth"
    /\ hs["I"].ck = <<Dh(INITIATOR_E, RESPONDER_E)>>
    /\ hs["I"].h # hs["R"].h

----------------------------------------------------------------------------
(* C29 *)

\* the Initiator has read message 2 as the Responder wrote it
ReadIntactMessage2 ==
    /\ flipped = "none"
    /\ hs["R"].state \in {"SentEandS", "Split"}
    /\ msg2 = <<>>

\* C29: the Initiator accepts message 2 and splits only with its clock inside the
\* certificate's window.  Having read message 2 with its clock outside the window it
\* is in Failed; when the window is all that is wrong, the error is CertificateExpired
\* for a not-valid-after before its clock and CertificateNotYetValid for a not-before
\* after its clock.
C29_ValidityWindow ==
    LET cert == Certificate(cfg)
        now  == cfg.i_now
    IN  /\ hs["I"].state \in {"ReceivedEandS", "Split"}
              => cert.valid_from <= now /\ now <= cert.not_valid_after
        /\ (ReadIntactMessage2 /\ (cert.not_valid_after < now \/ cert.valid_from > now))
              => hs["I"].state = "Failed"
        /\ (ReadIntactMessage2 /\ cfg.expected = AUTHORITY /\ cert.not_valid_after < now)
              => hs["I"].error = "CertificateExpired"
        /\ (ReadIntactMessage2 /\ cfg.expected = AUTHORITY /\ cert.valid_from > now)
              => hs["I"].error = "CertificateNotYetValid"

\* the Initiator failed on a certificate that expired before its clock
C29_Witness ==
    /\ Certificate(cfg).not_valid_after < cfg.i_now
    /\ hs["I"].state = "Failed" /\ hs["I"].error = "CertificateExpired"

----------------------------------------------------------------------------
(* C31 *)

\* the position of the last byte of bs that is not u8::MAX (0 if there is none)
LastNotMax(bs) ==
    IF AllMax(bs) THEN 0
    ELSE CHOOSE i \in 1 .. Len(bs) :
            bs[i] # U8_MAX /\ \A j \in i + 1 .. Len(bs) : bs[j] = U8_MAX

\* C31: on a slice that is not all u8::MAX, increment_bytes_be returns Ok and leaves
\* the big-endian encoding, at the same length, of the previous value plus one: the
\* bytes before the last byte that was not u8::MAX are unchanged, that byte is one
\* more, the bytes after it are 0.
C31_IncrementAddsOne ==
    (incResult # "none" /\ ~AllMax(sliceBefore))
        => /\ incResult = "Ok"
           /\ Len(slice) = Len(sliceBefore)
           /\ FromBeBytes(slice) = FromBeBytes(sliceBefore) + 1
           /\ LET p == LastNotMax(sliceBefore)
              IN  /\ \A i \in 1 .. p - 1 : slice[i] = sliceBefore[i]
                  /\ slice[p] = sliceBefore[p] + 1
                  /\ \A i \in p + 1 .. Len(slice) : slice[i] = 0

\* the call carried over two trailing u8::MAX bytes into a byte that is not the first
C31_Witness ==
    /\ incResult = "Ok"
    /\ Len(sliceBefore) = 4
    /\ LastNotMax(sliceBefore) = 2
    /\ sliceBefore[1] # 0

----------------------------------------------------------------------------
(* C32 *)

\* C32: an ExtendedExtranonce converted to an Extranonce and back by from_extranonce
\* with its own three ranges is the ExtendedExtranonce it was: the same bytes and the
\* same ranges.
C32_ExtendedExtranonceRoundTrip ==
    result.op = "from_extranonce"
        => /\ result.ret = "Some"
           /\ alloc = ExtendedExtranonce(result.before, result.range_0, result.range_1,
                                         result.range_2)

\* a buffer of three different bytes under a partition into three ranges of one byte
\* came back
C32_Witness ==
    /\ result.op = "from_extranonce" /\ result.ret = "Some"
    /\ result.before = <<1, 0, U8_MAX>>
    /\ alloc.inner = result.before
    /\ alloc.range_0 = Range(0, 1) /\ alloc.range_1 = Range(1, 2)
    /\ alloc.range_2 = Range(2, EXTRANONCE_LEN)


----------------------------------------------------------------------------
(* Translator: reconnecting to the upstream *)

\* C33: the tasks a restart creates keep running until the next shutdown: a
\* component's task of the n-th call of start is stopped by the cancellation
\* of its token only once main has handled n UpstreamShutdown statuses, never by
\* the cancellation issued for an earlier connection
C33_RestartedTasksKeepRunning ==
    \A i \in DOMAIN tasks :
        tasks[i].kind \in Components /\ tasks[i].state = "cancelled"
            => shutdowns >= tasks[i].start

----------------------------------------------------------------------------
(* jd-server: the JDsMempool *)

Returns == update'.pc = "returned" /\ update.pc # "returned"

\* C34: update_mempool is all-or-nothing: when it returns Ok the stored mempool
\* is the whole, non-empty list it fetched; when it returns an error (NoClient,
\* Rpc, EmptyMempool) the stored mempool is as it was; no other step of it
\* touches the stored mempool, and a reader under the lock gets the stored list
\* and leaves it alone, so it never sees a partly filled one
C34_UpdateAllOrNothing ==
    [][/\ Returns =>
            \/ /\ update'.ret = "Ok"
               /\ update.mempool_ordered # <<>>
               /\ mempool' = update.mempool_ordered
            \/ /\ update'.ret \in {"NoClient", "Rpc", "EmptyMempool"}
               /\ mempool' = mempool
       /\ ~Returns => mempool' = mempool
       /\ readerOp' # readerOp => readerOp'.seen = mempool
      ]_vars

\* an update has failed on an empty result after an earlier one had stored two
\* transactions, and a reader has seen those two
C34_Witness ==
    /\ update.pc = "returned"
    /\ update.ret = "EmptyMempool"
    /\ update.calls = 2
    /\ Len(mempool) = 2
    /\ readerOp.op = "_get_transaction_list"
    /\ readerOp.seen = mempool

SameShortId(mp, nonce) ==
    \E i, j \in DOMAIN mp : i # j /\ get_short_hash(mp[i], nonce) = get_short_hash(mp[j], nonce)

\* C38: to_short_ids(nonce) returns None exactly when two stored transactions
\* have the same short id under the nonce; otherwise the map has one entry for
\* each stored transaction, under its short id; the mempool is unchanged
C38_ToShortIds ==
    [][readerOp' # readerOp /\ readerOp'.op = "to_short_ids" =>
        LET ret == readerOp'.ret
            nonce == readerOp'.nonce
        IN  /\ ret = None <=> SameShortId(mempool, nonce)
            /\ ret.some =>
                /\ Cardinality(DOMAIN ret.val) = Len(mempool)
                /\ \A i \in DOMAIN mempool :
                    /\ get_short_hash(mempool[i], nonce) \in DOMAIN ret.val
                    /\ ret.val[get_short_hash(mempool[i], nonce)] = mempool[i]
            /\ mempool' = mempool
      ]_vars

\* to_short_ids has returned None on a mempool of two transactions or more
C38_Witness ==
    /\ readerOp.op = "to_short_ids"
    /\ Len(readerOp.seen) >= 2
    /\ readerOp.ret = None

----------------------------------------------------------------------------
(* jd-server: solutions, declared jobs and the receive loop *)

SubmittedHexes == [i \in DOMAIN submitted |-> submitted[i].block_hex]

\* the block hexes passed to submit_block are the first ones sent, in the order sent
C35_SubmittedInOrder == IsPrefix(SubmittedHexes, sentHex)

EachSentIsSubmitted ==
    \A k \in 1 .. MaxMessages : (Len(sentHex) >= k) ~> (Len(submitted) >= k)

\* C35: every block hex sent on the submit-solution channel is passed to
\* submit_block exactly once, in the order sent, whether the submissions before
\* it failed or not
C35_EverySolutionSubmittedOnce == []C35_SubmittedInOrder /\ EachSentIsSubmitted

\* the same when the url of the JDsMempool gives a client
C35_SubmittedWithClient == get_client(url).some => C35_EverySolutionSubmittedOnce

ReceivedNow(frame) ==
    Len(handled') = Len(handled) + 1 /\ handled'[Len(handled')] = frame

\* C36: a declared mining job builds at most one block: no two block hexes on
\* the submit-solution channel are of the same declaration; handling a
\* SubmitSolution leaves declared_mining_job None, and one handled while it is
\* None puts nothing on the channel
C36_JobUsedOnce ==
    /\ [](\A i, j \in DOMAIN sentHex : i # j => sentHex[i].job # sentHex[j].job)
    /\ [][ReceivedNow("SubmitSolution") =>
            /\ declared_mining_job' = None
            /\ declared_mining_job = None =>
                    sentHex' = sentHex /\ submit_solution' = submit_solution
          ]_vars

\* a job was declared, a solution for it put on the channel, and a second
\* SubmitSolution without a new declaration has put nothing there
C36_Witness ==
    /\ Len(handled) >= 3
    /\ handled[Len(handled) - 2] = "DeclareMiningJob"
    /\ handled[Len(handled) - 1] = "SubmitSolution"
    /\ handled[Len(handled)] = "SubmitSolution"
    /\ Len(sentHex) = 1
    /\ declared_mining_job = None

----------------------------------------------------------------------------
(* message-generator: a failed result fails the test *)

\* C39: when a received message did not satisfy an expected result (for
\* MatchMessageField: the message is of the type named and each listed field has
\* the expected value), execute ends with the panic "test failed!!!"
C39_FailedResultFailsTest ==
    unsatisfied /\ executor.pc # "running"
        => executor.pc = "panicked" /\ executor.panic = "test failed!!!"

\* the least of it: such a run does not end with TEST OK
C39_UnsatisfiedNeverTestOk == ~(unsatisfied /\ executor.pc = "returned")
====
